---------------------------- MODULE Spec2Model ----------------------------
(***************************************************************************)
(* Model of Highlight(str, options, onerror) of JustLib: the regex-driven  *)
(* syntax highlighter (token scanner, span compositor, line/indent         *)
(* reconstructor).                                                         *)
(*                                                                         *)
(* A JavaScript string is modelled as a sequence of fragments.  A fragment *)
(* is a TLA+ string: a character of the input is a fragment of length 1,   *)
(* and every literal the highlighter inserts (an opening or closing span   *)
(* tag, "&nbsp;", the indent marker, "<br>", the row template pieces) is   *)
(* one fragment, whose JavaScript length is Len(fragment).  The JavaScript *)
(* string is the concatenation of the fragments.  Character offsets of the *)
(* code are kept as character offsets (see Boundary and InsertAt).         *)
(*                                                                         *)
(* The model follows src/unnamed/part_000; src/JustLib.js holds the same   *)
(* function without rule 4 of the table, which matches nothing here.       *)
(***************************************************************************)
EXTENDS Integers, Sequences, FiniteSets, TLC

VARIABLES
    originalString, \* the input as passed by the caller (sequence of characters)
    str,            \* the working string of Highlight (sequence of fragments)
    tabSize,        \* option tabSize
    indentLines,    \* option indentLines
    lineNumbers,    \* option lineNumbers
    wrapLines,      \* option wrapLines
    style,          \* option style
    colorVariables, \* option colorVariables
    allowSelection, \* option allowSelection
    onerror,        \* TRUE when the caller supplied the error callback
    lookbehind,     \* TRUE when the engine's RegExp compiles (?<! ... ) assertions
    pc,             \* position inside Highlight
    positions,      \* var positions: the candidate spans <<pos, color, end, rule>>
    next,           \* index of the next element visited by for(var position of positions)
    offset,         \* var offset: total length inserted so far
    Start,          \* var Start
    End,            \* var End
    accepted,       \* the spans that passed the start < End test, in order
    failed,         \* var failed
    calls,          \* the invocations of onerror so far: <<[error, text]>>
    lines,          \* var lines
    result,         \* the value returned to the caller
    thrown,         \* TRUE when an exception left Highlight
    parseRegex,     \* ComplexNumber.__parseRegex
    allocated,      \* the number of RegExp objects __getParseRegex has created
    served,         \* the values the calls of __getParseRegex returned, in order
    numbers,        \* the outcomes of the calls of new ComplexNumber(...), in order
    generator,      \* the function called: "randomGaussian" or "RandomGenerator.gaussian"
    min,            \* parameter min of the gaussian draw
    max,            \* parameter max of the gaussian draw
    num,            \* let num of the running activation, in fixed point
    frames,         \* the number of activations of the function on the stack
    gpc,            \* position inside the running activation
    returned,       \* the value the outermost call returned, in fixed point
    listenersMap,   \* this.listenersMap: type -> array of listeners, or NoList
    created,        \* the EventListener.Listener objects created, in order
    eventType,      \* type of the dispatchEvent in progress, NoEvent when none is
    cursor,         \* the number of elements the for-of loop of the dispatch consumed
    isStopped,      \* eventObject.isStopped of the last dispatch
    registered,     \* the listeners of the type when the last dispatch began
    invoked         \* the listeners the last dispatch has called, in order

\* the options that only the returned markup reads
wrapper == <<wrapLines, style, colorVariables, allowSelection>>

\* the state of one call of Highlight
highlight == <<originalString, str, tabSize, indentLines, lineNumbers, wrapper, onerror,
               lookbehind, pc, positions, next, offset, Start, End, accepted,
               failed, calls, lines, result, thrown>>

\* the state of class ComplexNumber and the log of its use
complex == <<parseRegex, allocated, served, numbers>>

\* the state of one call of randomGaussian or RandomGenerator.gaussian
gaussian == <<generator, min, max, num, frames, gpc, returned>>

\* the state of one EventListener and the log of its last dispatch
events == <<listenersMap, created, eventType, cursor, isStopped, registered, invoked>>

vars == <<highlight, complex, gaussian, events>>

---------------------------------------------------------------------------
(* Bounds of the model and the inputs drawn by Init.                       *)

\* longest input string, in characters
MaxLen == 3

\* characters an input is made of
Alphabet == {"/", "*", "<", "1", "\n", "\r", "\t", " "}

\* characters of the inputs tried with non-default options
LineAlphabet == {"/", "\n", "\r", "\t", " "}

\* longest input string tried with non-default markup options
MaxWrapLen == 1

\* inputs tried besides the enumerated ones, with default options
Examples == {
    <<"/", "/", " ", "h", "i", "\n", "l", "e", "t", " ", "x", " ", "=", " ", "1", ";">>,
    <<"/", " ", "/", "/">>,
    <<"/", "\"", "/", " ", "/", "/", "\"">>,
    <<"x", " ", "=", " ", "\"", "h", "i", ";">>,
    <<"\"", "h", "i">>,
    <<"/", "\t", "\n", "\r">>,
    <<"x", " ", "=", " ", "\"", "h", "i", "\"", ";">>,
    <<"n", "e", "w", " ", "n", "e">>,
    <<"i", "n", "t", " ", "x", " ", "=", " ", "1", "e", "1", ";">>
}

\* tab sizes tried besides the default
TabSizes == {1, 2}

\* default of option tabSize
DefaultTabSize == 4

\* default of option fontSize
DefaultFontSize == 14

\* default of option lineHeight
DefaultLineHeight == 18

\* the strings of at most n characters of A
RECURSIVE StringsUpTo(_, _)
StringsUpTo(A, n) ==
    IF n = 0 THEN {<<>>}
    ELSE LET shorter == StringsUpTo(A, n - 1)
         IN  shorter \cup {Append(s, c) : s \in {t \in shorter : Len(t) = n - 1}, c \in A}

---------------------------------------------------------------------------
(* Character classes of the regular expressions, as far as the characters  *)
(* that can occur in an escaped input over Alphabet or in an escaped       *)
(* member of Examples are concerned.                                       *)

Digits == {"0", "1", "2", "3", "4", "5", "6", "7", "8", "9"}

Letters == {"a", "b", "c", "d", "e", "f", "g", "h", "i", "j", "k", "l", "m",
            "n", "o", "p", "q", "r", "s", "t", "u", "v", "w", "x", "y", "z",
            "A", "B", "C", "D", "E", "F", "G", "H", "I", "J", "K", "L", "M",
            "N", "O", "P", "Q", "R", "S", "T", "U", "V", "W", "X", "Y", "Z"}

\* \w
IsWord(c) == c \in Digits \cup Letters \cup {"_"}

\* [a-zA-Z0-9_$]
IsIdent(c) == c \in Digits \cup Letters \cup {"_", "$"}

\* \s
IsSpace(c) == c \in {" ", "\t", "\n", "\r", "\f"}

\* a LineTerminator: what . does not match and what ^ and $ (flag m) look at
IsLT(c) == c \in {"\n", "\r"}

\* [(){}\[\]+\-*?%.:,;&|^!<>=~/]
IsArithmetic(c) ==
    c \in {"(", ")", "{", "}", "[", "]", "+", "-", "*", "?", "%", ".", ":",
           ",", ";", "&", "|", "^", "!", "<", ">", "=", "~", "/"}

\* [gmixsuXUAJD]
IsFlag(c) == c \in {"g", "m", "i", "x", "s", "u", "X", "U", "A", "J", "D"}

---------------------------------------------------------------------------
(* String helpers.  Offsets are 0-based as in JavaScript: At(s, i) is s[i].*)

At(s, i) == s[i + 1]

\* s.substring(a, b) for 0 <= a <= b <= s.length
Sub(s, a, b) == SubSeq(s, a + 1, b)

\* TRUE when t occurs in s at offset i
OccursAt(s, t, i) ==
    /\ i + Len(t) <= Len(s)
    /\ \A k \in 1..Len(t) : s[i + k] = t[k]

\* s.indexOf(t): the first offset where t occurs, -1 when there is none
IndexOf(s, t) ==
    LET hits == {i \in 0..Len(s) : OccursAt(s, t, i)}
    IN  IF hits = {} THEN -1 ELSE CHOOSE i \in hits : \A j \in hits : i <= j

\* str.replace(/(>)/g, "&gt;") then str.replace(/(<)/g, "&lt;")
RECURSIVE ReplaceChar(_, _, _)
ReplaceChar(s, c, by) ==
    IF s = <<>> THEN <<>>
    ELSE (IF Head(s) = c THEN by ELSE <<Head(s)>>) \o ReplaceChar(Tail(s), c, by)

\* Escape as it would be if "&" were escaped as well
EscapeAmpersandToo(s) ==
    ReplaceChar(ReplaceChar(ReplaceChar(s, "&", <<"&", "a", "m", "p", ";">>),
                            ">", <<"&", "g", "t", ";">>), "<", <<"&", "l", "t", ";">>)

Escape(s) ==
    ReplaceChar(ReplaceChar(s, ">", <<"&", "g", "t", ";">>), "<", <<"&", "l", "t", ";">>)


---------------------------------------------------------------------------
(* The rule table Colors, in declaration order.  lookbehind marks the      *)
(* patterns that contain a (?<! ... ) assertion: new RegExp throws a       *)
(* SyntaxError for them on an engine without lookbehind support.           *)

Colors == <<
    [color |-> "COMMENT",       lookbehind |-> FALSE],  \*  1  (\/\/.*?(?:\n|$)|\/\*(?:.|\n|\r)*?\*\/)
    [color |-> "REGEX",         lookbehind |-> TRUE],   \*  2  (?<!\w)(?<!\w)(\/(?:\\\/|.)*?\/[gmixsuXUAJD]*)(?!\w)(?!\s\w)
    [color |-> "NUMBER",        lookbehind |-> FALSE],  \*  3  (?:^|[^a-zA-Z0-9_$])(?:\+|-)?((?:0(...)|(?:\d+\.|\.)?\d+)(?:e(?:\+|-)?\d+)?)
    [color |-> "VARIABLE",      lookbehind |-> FALSE],  \*  4  [{,]\s*(["'`](...)*["'`]):
    [color |-> "STRING",        lookbehind |-> TRUE],   \*  5  (".*?"(?<!\\")|'.*?'(?<!\\'))
    [color |-> "STRING",        lookbehind |-> TRUE],   \*  6  (`(?:.|\n|\r\n)*?`)(?<!\\`)
    [color |-> "TEMPLATE_CODE", lookbehind |-> FALSE],  \*  7  (?:`|}).*?(\${)
    [color |-> "TEMPLATE_CODE", lookbehind |-> FALSE],  \*  8  (}).*?(?:`|\${)
    [color |-> "NAME",          lookbehind |-> FALSE],  \*  9  (?:new|class)\s+([^0-9]\w+)
    [color |-> "DATA_TYPE",     lookbehind |-> FALSE],  \* 10  (?:extends)\s+([^0-9]\w+)
    [color |-> "DATA_TYPE",     lookbehind |-> FALSE],  \* 11  (?:^|[^a-zA-Z0-9_$])(Function|Number|...)(?!\w)
    [color |-> "IMPORT",        lookbehind |-> FALSE],  \* 12  (?:\*|\w)\s(as)\s.
    [color |-> "IMPORT",        lookbehind |-> FALSE],  \* 13  (?:^|[^a-zA-Z0-9_$])(?:import.*?)(from)(?!\w)
    [color |-> "KEYWORD",       lookbehind |-> FALSE],  \* 14  (?:^|[^a-zA-Z0-9_$])(new|else|...)(?!\w)
    [color |-> "CONSTANT",      lookbehind |-> FALSE],  \* 15  (?:^|[^a-zA-Z0-9_$])(true|false|...)(?!\w)
    [color |-> "STORAGE",       lookbehind |-> FALSE],  \* 16  (?:^|[^a-zA-Z0-9_$])(var|let|...|=&gt;)(?!\w)
    [color |-> "ENUM",          lookbehind |-> FALSE],  \* 17  (?:^|[^a-zA-Z0-9_$])(document)(?!\w)
    [color |-> "CONDITIONAL",   lookbehind |-> FALSE],  \* 18  (?:^|[^a-zA-Z0-9_$])(for|while|...)(\s*|)(\(|{)
    [color |-> "FUNCTION",      lookbehind |-> FALSE],  \* 19  ([A-Za-z_$][A-Za-z0-9_$]*)\s*(?:\(|\?\.\(|=...)
    [color |-> "ENUM",          lookbehind |-> FALSE],  \* 20  (?:^|[^a-zA-Z0-9_$])([A-Z_$][A-Z0-9_$]*)(?!^|[a-zA-Z0-9_$])
    [color |-> "ARITHMETIC",    lookbehind |-> FALSE],  \* 21  (&gt;|&lt;)
    [color |-> "ARITHMETIC",    lookbehind |-> FALSE]   \* 22  ([(){}\[\]+\-*?%.:,;&|^!<>=~/])
>>

\* the result of a match attempt that fails
NoMatch == [len |-> -1, group |-> <<>>]

\* a successful match: the matched text is s[p .. p+len), group is groups[0],
\* the text of the first capture group
Matched(n, g) == [len |-> n, group |-> g]

\* the least member of a non-empty set of integers
Least(S) == CHOOSE i \in S : \A j \in S : i <= j

\* rule 1 at offset p: a line comment up to and including the next "\n" (or
\* up to the end of the line when the line ends otherwise), else a block comment
CommentAt(s, p) ==
    IF OccursAt(s, <<"/", "/">>, p)
    THEN LET stops == {q \in (p + 2)..Len(s) : q = Len(s) \/ IsLT(At(s, q))}
             q     == Least(stops)
             n     == IF q < Len(s) /\ At(s, q) = "\n" THEN q + 1 - p ELSE q - p
         IN  Matched(n, Sub(s, p, p + n))
    ELSE IF OccursAt(s, <<"/", "*">>, p)
    THEN LET ends == {q \in (p + 2)..Len(s) : OccursAt(s, <<"*", "/">>, q)}
         IN  IF ends = {} THEN NoMatch
             ELSE Matched(Least(ends) + 2 - p, Sub(s, p, Least(ends) + 2))
    ELSE NoMatch

\* the end of the greedy run [gmixsuXUAJD]* that starts at offset e
RECURSIVE FlagsEnd(_, _)
FlagsEnd(s, e) ==
    IF e < Len(s) /\ IsFlag(At(s, e)) THEN FlagsEnd(s, e + 1) ELSE e

\* (?!\w)(?!\s\w) at offset e
RegexLookahead(s, e) ==
    /\ ~(e < Len(s) /\ IsWord(At(s, e)))
    /\ ~(e + 1 < Len(s) /\ IsSpace(At(s, e)) /\ IsWord(At(s, e + 1)))

\* rule 2 at offset p: "/", the fewest characters of one line, "/", flags
RegexAt(s, p) ==
    IF /\ p < Len(s)
       /\ At(s, p) = "/"
       /\ (p = 0 \/ ~IsWord(At(s, p - 1)))
    THEN LET closes == {q \in (p + 1)..(Len(s) - 1) :
                           /\ At(s, q) = "/"
                           /\ \A k \in (p + 1)..(q - 1) : ~IsLT(At(s, k))
                           /\ RegexLookahead(s, FlagsEnd(s, q + 1))}
         IN  IF closes = {} THEN NoMatch
             ELSE LET e == FlagsEnd(s, Least(closes) + 1)
                  IN  Matched(e - p, Sub(s, p, e))
    ELSE NoMatch

\* the end of the greedy run \d+ that starts at offset e
RECURSIVE DigitsEnd(_, _)
DigitsEnd(s, e) ==
    IF e < Len(s) /\ At(s, e) \in Digits THEN DigitsEnd(s, e + 1) ELSE e

\* the end of \d+(?:e(?:\+|-)?\d+)? for digits that start at offset d (no
\* sign can occur in the inputs)
NumberEnd(s, d) ==
    LET e == DigitsEnd(s, d)
    IN  IF e < Len(s) /\ At(s, e) = "e" /\ DigitsEnd(s, e + 1) > e + 1
        THEN DigitsEnd(s, e + 1)
        ELSE e

\* rule 3 at offset p: (?:^|[^a-zA-Z0-9_$]) then the number (no sign, radix
\* prefix or point can occur in the inputs)
NumberAt(s, p) ==
    IF /\ p = 0 \/ IsLT(At(s, p - 1))
       /\ DigitsEnd(s, p) > p
    THEN Matched(NumberEnd(s, p) - p, Sub(s, p, NumberEnd(s, p)))
    ELSE IF /\ p < Len(s)
            /\ ~IsIdent(At(s, p))
            /\ DigitsEnd(s, p + 1) > p + 1
    THEN Matched(NumberEnd(s, p + 1) - p, Sub(s, p + 1, NumberEnd(s, p + 1)))
    ELSE NoMatch

\* one alternative of rule 5 at offset p: the quote, the fewest characters
\* of one line, the quote (no backslash can occur in the inputs)
QuotedAt(s, p, quote) ==
    IF p < Len(s) /\ At(s, p) = quote
    THEN LET closes == {q \in (p + 1)..(Len(s) - 1) :
                           /\ At(s, q) = quote
                           /\ \A k \in (p + 1)..(q - 1) : ~IsLT(At(s, k))}
         IN  IF closes = {} THEN NoMatch
             ELSE Matched(Least(closes) + 1 - p, Sub(s, p, Least(closes) + 1))
    ELSE NoMatch

\* rule 5 at offset p
StringAt(s, p) ==
    IF QuotedAt(s, p, "\"") # NoMatch THEN QuotedAt(s, p, "\"") ELSE QuotedAt(s, p, "'")

\* the end of the greedy run \s+ or \s* that starts at offset e
RECURSIVE SpaceEnd(_, _)
SpaceEnd(s, e) ==
    IF e < Len(s) /\ IsSpace(At(s, e)) THEN SpaceEnd(s, e + 1) ELSE e

\* the end of the greedy run \w+ that starts at offset e
RECURSIVE WordEnd(_, _)
WordEnd(s, e) ==
    IF e < Len(s) /\ IsWord(At(s, e)) THEN WordEnd(s, e + 1) ELSE e

\* the greatest member of a non-empty set of integers
Greatest(S) == CHOOSE i \in S : \A j \in S : j <= i

\* the words of (?:new|class)
NameWords == {<<"n", "e", "w">>, <<"c", "l", "a", "s", "s">>}

\* rule 9 at offset p: the word, \s+ as long as it can be while [^0-9]\w+
\* still follows, then one character that is no digit and the word characters
NameAt(s, p) ==
    LET heads == {w \in NameWords : OccursAt(s, w, p)}
    IN  IF heads = {} THEN NoMatch
        ELSE LET h  == p + Len(CHOOSE w \in heads : TRUE)
                 ks == {k \in (h + 1)..SpaceEnd(s, h) :
                           /\ k < Len(s)
                           /\ At(s, k) \notin Digits
                           /\ WordEnd(s, k + 1) > k + 1}
             IN  IF ks = {} THEN NoMatch
                 ELSE Matched(WordEnd(s, Greatest(ks) + 1) - p,
                              Sub(s, Greatest(ks), WordEnd(s, Greatest(ks) + 1)))

\* the words of rule 14 that the characters of the inputs can spell
KeywordWords == {<<"n", "e", "w">>, <<"w", "i", "t", "h">>}

\* the words of rule 16 that the characters of the inputs can spell
StorageWords == {<<"l", "e", "t">>, <<"i", "n">>, <<"i", "n", "t">>}

\* the words of the list that stand at offset q with no \w after them; at
\* most one does, the one that ends where the run of word characters ends
WordsAt(words, s, q) ==
    {w \in words : /\ OccursAt(s, w, q)
                    /\ ~(q + Len(w) < Len(s) /\ IsWord(At(s, q + Len(w))))}

\* rules 14 and 16 at offset p: (?:^|[^a-zA-Z0-9_$])(word|...)(?!\w)
WordRuleAt(words, s, p) ==
    IF /\ p = 0 \/ IsLT(At(s, p - 1))
       /\ WordsAt(words, s, p) # {}
    THEN LET w == CHOOSE w \in WordsAt(words, s, p) : TRUE
         IN  Matched(Len(w), w)
    ELSE IF /\ p < Len(s)
            /\ ~IsIdent(At(s, p))
            /\ WordsAt(words, s, p + 1) # {}
    THEN LET w == CHOOSE w \in WordsAt(words, s, p + 1) : TRUE
         IN  Matched(1 + Len(w), w)
    ELSE NoMatch

\* rule 21 at offset p
EntityAt(s, p) ==
    IF OccursAt(s, <<"&", "g", "t", ";">>, p) \/ OccursAt(s, <<"&", "l", "t", ";">>, p)
    THEN Matched(4, Sub(s, p, p + 4))
    ELSE NoMatch

\* rule 22 at offset p
ArithmeticAt(s, p) ==
    IF p < Len(s) /\ IsArithmetic(At(s, p))
    THEN Matched(1, <<At(s, p)>>)
    ELSE NoMatch

\* the match of rule r that starts at offset p.  The other rules need a
\* backtick, a brace, a comma, a parenthesis, an upper-case letter, "&gt;" or
\* a word that the characters of the inputs cannot spell.
MatchAt(r, s, p) ==
    CASE r = 1  -> CommentAt(s, p)
      [] r = 2  -> RegexAt(s, p)
      [] r = 3  -> NumberAt(s, p)
      [] r = 5  -> StringAt(s, p)
      [] r = 9  -> NameAt(s, p)
      [] r = 14 -> WordRuleAt(KeywordWords, s, p)
      [] r = 16 -> WordRuleAt(StorageWords, s, p)
      [] r = 21 -> EntityAt(s, p)
      [] r = 22 -> ArithmeticAt(s, p)
      [] OTHER  -> NoMatch

\* SpanOf taking the full match (group 0) for the span
SpanOfWholeMatch(r, s, p, m) == <<p, Colors[r].color, p + m.len, r>>

\* the callback of str.replace(regexp, ...): the span pushed for the match m
\* of rule r found at offset p
SpanOf(r, s, p, m) ==
    LET match  == Sub(s, p, p + m.len)
        start  == IndexOf(match, m.group)
        before == IF start < 0 THEN 0 ELSE start
        pos    == p + before
    IN  <<pos, Colors[r].color, pos + Len(m.group), r>>

\* ScanFrom resuming one character after the start of a match, so that
\* matches may overlap
RECURSIVE ScanFromEveryOffset(_, _, _)
ScanFromEveryOffset(r, s, p) ==
    IF p > Len(s) THEN <<>>
    ELSE LET m == MatchAt(r, s, p)
         IN  IF m = NoMatch THEN ScanFromEveryOffset(r, s, p + 1)
             ELSE <<SpanOf(r, s, p, m)>> \o ScanFromEveryOffset(r, s, p + 1)

\* str.replace(regexp, callback) with flag g: the spans of all matches of
\* rule r found from offset p on, each search resuming at the end of the last match
RECURSIVE ScanFrom(_, _, _)
ScanFrom(r, s, p) ==
    IF p > Len(s) THEN <<>>
    ELSE LET m == MatchAt(r, s, p)
         IN  IF m = NoMatch THEN ScanFrom(r, s, p + 1)
             ELSE <<SpanOf(r, s, p, m)>>
                  \o ScanFrom(r, s, IF m.len = 0 THEN p + 1 ELSE p + m.len)

\* new RegExp(regex, "gm") succeeds for rule r
Compiles(r, lb) == lb \/ ~Colors[r].lookbehind

\* for(var regex in Colors) from rule r on: the spans pushed, and whether
\* the loop was left by an exception
RECURSIVE ScanRules(_, _, _, _)
ScanRules(r, s, lb, acc) ==
    IF r > Len(Colors) THEN [positions |-> acc, threw |-> FALSE]
    ELSE IF ~Compiles(r, lb) THEN [positions |-> acc, threw |-> TRUE]
    ELSE ScanRules(r + 1, s, lb, acc \o ScanFrom(r, s, 0))

\* InsertSorted as an unstable sort would do it: equal starts change places
RECURSIVE InsertSortedUnstable(_, _)
InsertSortedUnstable(sorted, a) ==
    IF sorted = <<>> THEN <<a>>
    ELSE IF sorted[Len(sorted)][1] < a[1] THEN Append(sorted, a)
    ELSE Append(InsertSortedUnstable(SubSeq(sorted, 1, Len(sorted) - 1), a),
                sorted[Len(sorted)])

\* SortPositions left out: the spans stay in the order of emission
SortPositionsMissing(ps) == ps

\* positions.sort((a, b) => a[0] - b[0]): a stable sort by start offset
RECURSIVE InsertSorted(_, _)
InsertSorted(sorted, a) ==
    IF sorted = <<>> THEN <<a>>
    ELSE IF sorted[Len(sorted)][1] <= a[1] THEN Append(sorted, a)
    ELSE Append(InsertSorted(SubSeq(sorted, 1, Len(sorted) - 1), a), sorted[Len(sorted)])

RECURSIVE SortPositions(_)
SortPositions(ps) ==
    IF ps = <<>> THEN <<>>
    ELSE InsertSorted(SortPositions(SubSeq(ps, 1, Len(ps) - 1)), ps[Len(ps)])

---------------------------------------------------------------------------
(* The span compositor.                                                    *)

\* text0: `<span style="color: var(--${color})">`
OpenTag(color) == "<span style=\"color: var(--" \o color \o ")\">"

\* text1
CloseTag == "</span>"

OpenTags == {OpenTag(Colors[r].color) : r \in 1..Len(Colors)}

\* the number of leading fragments of s that end at or before character
\* offset p.  Every offset the compositor computes is the end of a fragment.
RECURSIVE Boundary(_, _)
Boundary(s, p) ==
    IF s = <<>> \/ Len(Head(s)) > p THEN 0
    ELSE 1 + Boundary(Tail(s), p - Len(Head(s)))

\* str.slice(0, p) + f + str.slice(p)
InsertAt(s, p, f) ==
    LET k == Boundary(s, p)
    IN  SubSeq(s, 1, k) \o <<f>> \o SubSeq(s, k + 1, Len(s))

\* Collides discarding a span that starts where the last accepted one ends
CollidesOrTouches(start, lastEnd) == start <= lastEnd

\* Collides with the comparison off by one
CollidesOffByOne(start, lastEnd) == start < lastEnd - 1

\* the test of the compositor loop: the span is skipped
Collides(start, lastEnd) == start < lastEnd

\* Wrap without the running offset added to the two positions
WrapWithoutOffset(s, position, off) ==
    LET pos0 == position[1]
        pos1 == Len(OpenTag(position[2])) + position[3]
    IN  InsertAt(InsertAt(s, pos0, OpenTag(position[2])), pos1, CloseTag)

\* Wrap with the closing tag placed as if no opening tag had been inserted
WrapCloseTooEarly(s, position, off) ==
    LET pos0 == position[1] + off
        pos1 == position[3] + off
    IN  InsertAt(InsertAt(s, pos0, OpenTag(position[2])), pos1, CloseTag)

\* the two insertions of one loop iteration for an accepted span
Wrap(s, position, off) ==
    LET pos0 == position[1] + off
        pos1 == Len(OpenTag(position[2])) + position[3] + off
    IN  InsertAt(InsertAt(s, pos0, OpenTag(position[2])), pos1, CloseTag)

---------------------------------------------------------------------------
(* The newline post-processing of wrapped spans:                           *)
(* str.replace(/(<span style=".*?">)((?:.|\r\n)*?)(<\/span>)/gim, ...)     *)

\* ((?:.|\r\n)*?)(<\/span>) from fragment k on: the index of the closing
\* tag that ends the match, 0 when a lone "\n" or "\r" comes first
RECURSIVE ContentEnd(_, _)
ContentEnd(s, k) ==
    IF k > Len(s) THEN 0
    ELSE IF s[k] = CloseTag THEN k
    ELSE IF s[k] = "\r" /\ k < Len(s) /\ s[k + 1] = "\n" THEN ContentEnd(s, k + 2)
    ELSE IF IsLT(s[k]) THEN 0
    ELSE ContentEnd(s, k + 1)

\* the fragments j >= i that can end group 1 (<span style=".*?">) of a
\* match starting at the opening tag s[i]: an opening tag with no line
\* terminator between s[i] and it
GroupEnds(s, i) ==
    {j \in i..Len(s) :
        /\ s[j] \in OpenTags
        /\ \A k \in i..j : ~IsLT(s[k])
        /\ ContentEnd(s, j + 1) > 0}

\* sub.replace(/\n/gm, `${text1}\n${text0}`)
RECURSIVE Reopen(_, _)
Reopen(sub, text0) ==
    IF sub = <<>> THEN <<>>
    ELSE (IF Head(sub) = "\n" THEN <<CloseTag, "\n">> \o text0 ELSE <<Head(sub)>>)
         \o Reopen(Tail(sub), text0)

\* the replacement callback for the match s[i..c] whose group 1 is s[i..j]
SplitSpan(s, i, j, c) ==
    LET text0 == SubSeq(s, i, j)
        sub   == SubSeq(s, j + 1, c - 1)
    IN  IF \A k \in 1..Len(sub) : sub[k] # "\n" THEN SubSeq(s, i, c)
        ELSE text0 \o Reopen(sub, text0) \o <<CloseTag>>

RECURSIVE PostFrom(_, _)
PostFrom(s, i) ==
    IF i > Len(s) THEN <<>>
    ELSE IF s[i] \in OpenTags /\ GroupEnds(s, i) # {}
    THEN LET j == Least(GroupEnds(s, i))
             c == ContentEnd(s, j + 1)
         IN  SplitSpan(s, i, j, c) \o PostFrom(s, c + 1)
    ELSE <<s[i]>> \o PostFrom(s, i + 1)

PostProcess(s) == PostFrom(s, 1)

---------------------------------------------------------------------------
(* The line/indent reconstructor.                                          *)

NBSP == "&nbsp;"

\* const INDENT
INDENT == "<span class=\"highlight-indent\"></span>"

\* const BR
BR == "<br>"

\* n copies of the fragments f, one after the other
RECURSIVE Repeat(_, _)
Repeat(f, n) == IF n <= 0 THEN <<>> ELSE f \o Repeat(f, n - 1)

\* const TAB = range(tabSize).reduce(prev => prev + "&nbsp;", "")
TAB(ts) == Repeat(<<NBSP>>, ts)

\* str.replace(/\t/g, TAB)
RECURSIVE ReplaceTabs(_, _)
ReplaceTabs(s, ts) ==
    IF s = <<>> THEN <<>>
    ELSE (IF Head(s) = "\t" THEN TAB(ts) ELSE <<Head(s)>>) \o ReplaceTabs(Tail(s), ts)

\* str.replace(/  /g, "&nbsp;&nbsp;")
RECURSIVE ReplaceSpaces(_)
ReplaceSpaces(s) ==
    IF s = <<>> THEN <<>>
    ELSE IF Len(s) >= 2 /\ s[1] = " " /\ s[2] = " "
    THEN <<NBSP, NBSP>> \o ReplaceSpaces(SubSeq(s, 3, Len(s)))
    ELSE <<Head(s)>> \o ReplaceSpaces(Tail(s))

\* SplitLines as a split that drops a trailing empty line would do it
RECURSIVE SplitLinesNoTrailing(_)
SplitLinesNoTrailing(s) ==
    LET nl == {k \in 1..Len(s) : s[k] = "\n"}
    IN  IF nl = {} THEN <<s>>
        ELSE IF Least(nl) = Len(s) THEN <<SubSeq(s, 1, Len(s) - 1)>>
        ELSE <<SubSeq(s, 1, Least(nl) - 1)>>
             \o SplitLinesNoTrailing(SubSeq(s, Least(nl) + 1, Len(s)))

\* str.split("\n")
RECURSIVE SplitLines(_)
SplitLines(s) ==
    LET nl == {k \in 1..Len(s) : s[k] = "\n"}
    IN  IF nl = {} THEN <<s>>
        ELSE <<SubSeq(s, 1, Least(nl) - 1)>> \o SplitLines(SubSeq(s, Least(nl) + 1, Len(s)))

\* lines.join("\n")
RECURSIVE JoinLines(_)
JoinLines(ls) ==
    IF Len(ls) = 1 THEN ls[1]
    ELSE ls[1] \o <<"\n">> \o JoinLines(Tail(ls))

\* the length of the run of "&nbsp;" that starts at fragment k
RECURSIVE RunLength(_, _)
RunLength(s, k) ==
    IF k <= Len(s) /\ s[k] = NBSP THEN 1 + RunLength(s, k + 1) ELSE 0

\* (line.match(tabRegex) || "").length with tabRegex = /((&nbsp;){tabSize})/g:
\* the non-overlapping groups of tabSize "&nbsp;" anywhere in the line
RECURSIVE TabMatches(_, _, _)
TabMatches(s, k, ts) ==
    IF k > Len(s) THEN 0
    ELSE IF RunLength(s, k) >= ts THEN 1 + TabMatches(s, k + ts, ts)
    ELSE TabMatches(s, k + 1, ts)

\* the test of the first loop over the lines: the line is rewritten
IsBlankLine(line) == ~(Len(line) = 0 \/ ~(Len(line) = 1 /\ line = <<"\r">>))

\* the first loop over the lines, lines 1..i done: a line that holds only
\* "\r" becomes as many TABs as tabRegex matches in the line before it
RECURSIVE InferIndent(_, _, _)
InferIndent(ls, i, ts) ==
    IF i > Len(ls) THEN ls
    ELSE IF ~IsBlankLine(ls[i]) THEN InferIndent(ls, i + 1, ts)
    ELSE LET prev == IF i = 1 THEN <<>> ELSE ls[i - 1]
             tabs == Repeat(TAB(ts), TabMatches(prev, 1, ts))
         IN  InferIndent([ls EXCEPT ![i] = tabs], i + 1, ts)

\* lines[i].replace(/\r/g, "")
RECURSIVE StripCR(_)
StripCR(s) ==
    IF s = <<>> THEN <<>>
    ELSE (IF Head(s) = "\r" THEN <<>> ELSE <<Head(s)>>) \o StripCR(Tail(s))

\* PreOpen without the failed test
PreOpenPlain(f) == "<pre class=\"highlight-pre\" >"

\* `<pre class="highlight-pre" ${failed ? 'style="color: white;"' : ""}>`
PreOpen(f) ==
    IF f THEN "<pre class=\"highlight-pre\" style=\"color: white;\">"
    ELSE "<pre class=\"highlight-pre\" >"

PreClose == "</pre>"

\* LineNumberCell showing the loop index i of the code, which starts at 0
LineNumberCellZeroBased(i, ln) ==
    IF ln THEN <<"<td class=\"highlight-line\">", "<div class=\"highlight-div\">",
                 ToString(i - 1), "</div>", "</td>">>
    ELSE <<>>

\* the line-number cell of row i (1-based), empty when lineNumbers is off
LineNumberCell(i, ln) ==
    IF ln THEN <<"<td class=\"highlight-line\">", "<div class=\"highlight-div\">",
                 ToString(i), "</div>", "</td>">>
    ELSE <<>>

\* the content of the <pre> block of a row
CellContent(line) == IF StripCR(line) = <<>> THEN <<BR>> ELSE StripCR(line)

\* the row template around line i
RowOf(line, i, ln, f) ==
    <<"<tr class=\"highlight-tr\">">> \o LineNumberCell(i, ln)
    \o <<"<td class=\"highlight-code\">", PreOpen(f)>>
    \o CellContent(line)
    \o <<PreClose, "</td>", "</tr>">>

\* the fragments that end with the character ">"
EndsWithGt(f) ==
    f \in OpenTags \cup {">", CloseTag, INDENT, BR, PreOpen(TRUE), PreOpen(FALSE),
                         PreClose, "</td>", "</tr>", "</div>",
                         "<tr class=\"highlight-tr\">", "<td class=\"highlight-line\">",
                         "<div class=\"highlight-div\">", "<td class=\"highlight-code\">"}

\* the index of the <pre ...> fragment of a row
PreIndex(row) == Least({k \in 1..Len(row) : row[k] \in {PreOpen(TRUE), PreOpen(FALSE)}})

\* /(<pre.*?>|<span style=".*?">)((?:&nbsp;)+|<br>)/ on a row: the places j
\* where group 1 can end, that is a ">" at or after <pre that is followed
\* by "&nbsp;" or "<br>"
GuideSites(row) ==
    {j \in PreIndex(row)..(Len(row) - 1) :
        EndsWithGt(row[j]) /\ row[j + 1] \in {NBSP, BR}}

\* lines[i - 1].split(INDENT).length - 1
RECURSIVE CountIndent(_)
CountIndent(row) ==
    IF row = <<>> THEN 0
    ELSE (IF Head(row) = INDENT THEN 1 ELSE 0) + CountIndent(Tail(row))

\* the replacement callback of the guide pass for the match that ends group
\* 1 at fragment j; prev is the finished row before this one, <<>> for row 1
Guides(row, j, prev, ts) ==
    LET isEmptyLine == row[j + 1] = BR
        run         == IF isEmptyLine THEN 1 ELSE RunLength(row, j + 1)
        len         == IF isEmptyLine /\ prev # <<>>
                       THEN CountIndent(prev) * ts
                       ELSE (IF isEmptyLine THEN 0 ELSE run)
        indent      == Repeat(<<INDENT>> \o TAB(ts), len \div ts)
        remain      == Repeat(<<NBSP>>, len % ts)
        newLine     == IF isEmptyLine /\ len = 0 THEN <<BR>> ELSE <<>>
    IN  SubSeq(row, 1, j) \o indent \o remain \o newLine
        \o SubSeq(row, j + 1 + run, Len(row))

\* one pass of the second loop over the lines: the row of line i
RenderRow(line, i, prev, ts, il, ln, f) ==
    LET row == RowOf(line, i, ln, f)
    IN  IF il /\ GuideSites(row) # {}
        THEN Guides(row, Least(GuideSites(row)), prev, ts)
        ELSE row

\* the second loop over the lines, rows 1..i-1 done
RECURSIVE RenderRows(_, _, _, _, _, _)
RenderRows(ls, i, ts, il, ln, f) ==
    IF i > Len(ls) THEN ls
    ELSE LET prev == IF i = 1 THEN <<>> ELSE ls[i - 1]
         IN  RenderRows([ls EXCEPT ![i] = RenderRow(ls[i], i, prev, ts, il, ln, f)],
                        i + 1, ts, il, ln, f)

\* lines.join("")
RECURSIVE Concat(_)
Concat(ls) == IF ls = <<>> THEN <<>> ELSE Head(ls) \o Concat(Tail(ls))

---------------------------------------------------------------------------
(* The returned markup: the template literal of the return statement and   *)
(* its normalisation.  Every line break, tab and space of the literal that *)
(* is next to another whitespace character is a fragment of its own.       *)

\* const HIGHLIGHTER, in key order
HIGHLIGHTER == <<
    [key |-> "COMMENT", value |-> "#888888"],
    [key |-> "REGEX", value |-> "#e46f6f"],
    [key |-> "NUMBER", value |-> "#c88dff"],
    [key |-> "STRING", value |-> "#ffe484"],
    [key |-> "TEMPLATE_CODE", value |-> "#71b0ff"],
    [key |-> "NAME", value |-> "#c0ff00"],
    [key |-> "DATA_TYPE", value |-> "#00ffc4"],
    [key |-> "IMPORT", value |-> "#ed0082"],
    [key |-> "CONTROL", value |-> "#ed0082"],
    [key |-> "CONSTANT", value |-> "#ff0073"],
    [key |-> "CONDITIONAL", value |-> "#ed0082"],
    [key |-> "FUNCTION", value |-> "#ff904d"],
    [key |-> "ARITHMETIC", value |-> "#ffffff"],
    [key |-> "STORAGE", value |-> "#5ea6e8"],
    [key |-> "KEYWORD", value |-> "#ed0082"],
    [key |-> "VARIABLE", value |-> "#b9e7ff"],
    [key |-> "ENUM", value |-> "#58c5d8"],
    [key |-> "INDENT", value |-> "#505050"],
    [key |-> "SELECTION", value |-> "#0089ac"],
    [key |-> "SELECTED_LINE", value |-> "#353535"],
    [key |-> "LINE_NUMBER", value |-> "#808080"],
    [key |-> "BACKGROUND", value |-> "#262626"]
>>

\* var css: the style sheet, every line break and tab of the literal kept
css == <<
    ".highlight-main *[class*=\"highlight\"] {", "\n", "\t", "\t", "margin: 0;", "\n",
    "\t", "\t", "padding: 0;", "\n", "\t", "\t", "box-sizing: border-box !important;",
    "\n", "\t", "}", "\n", "\t", ".highlight-main {", "\n", "\t", "\t",
    "display: inline-block;", "\n", "\t", "\t", "width: 100%;", "\n", "\t", "\t",
    "height: 100%;", "\n", "\t", "\t", "padding: 5px 0;", "\n", "\t", "\t",
    "color: var(--VARIABLE);", "\n", "\t", "\t", "font-family: monospace;", "\n", "\t",
    "\t", "font-size: var(--font-size);", "\n", "\t", "\t",
    "line-height: var(--line-height);", "\n", "\t", "\t", "white-space: nowrap;", "\n",
    "\t", "\t", "overflow: auto;", "\n", "\t", "\t", "cursor: default;", "\n", "\t", "\t",
    "background-color: var(--BACKGROUND);", "\n", "\t", "}", "\n", "\t",
    ".highlight-main .highlight-line {", "\n", "\t", "\t", "width: 30px;", "\n", "\t",
    "\t", "margin: 0 20px 0 10px;", "\n", "\t", "\t", "color: var(--LINE_NUMBER);", "\n",
    "\t", "\t", "text-align: center;", "\n", "\t", "\t", "vertical-align: top;", "\n",
    "\t", "\t", "user-select: none;", "\n", "\t", "}", "\n", "\t",
    ".highlight-main .highlight-line div {", "\n", "\t", "\t", "text-align: right;", "\n",
    "\t", "}", "\n", "\t", ".highlight-main tr {", "\n", "\t", "\t", "display: block;",
    "\n", "\t", "\t", "height: var(--line-height);", "\n", "\t", "\t", "border: none;",
    "\n", "\t", "\t", "background: transparent;", "\n", "\t", "}", "\n", "\t",
    ".highlight-main[line-wrap=\"true\"] tr {", "\n", "\t", "\t",
    "min-height: var(--line-height);", "\n", "\t", "\t", "height: auto;", "\n", "\t", "}",
    "\n", "\t", ".highlight-main td {", "\n", "\t", "\t", "display: inline-block;", "\n",
    "\t", "\t", "/*display: inline-table;*/", "\n", "\t", "\t", "width: 100%;", "\n", "\t",
    "\t", "height: var(--line-height);", "\n", "\t", "\t", "border: none;", "\n", "\t",
    "\t", "background: transparent;", "\n", "\t", "}", "\n", "\t",
    ".highlight-main[line-wrap=\"true\"] td {", "\n", "\t", "\t",
    "min-height: var(--line-height);", "\n", "\t", "\t", "height: auto;", "\n", "\t", "}",
    "\n", "\t", ".highlight-main pre {", "\n", "\t", "\t", "position: relative;", "\n",
    "\t", "\t", "height: var(--line-height);", "\n", "\t", "}", "\n", "\t",
    ".highlight-main[line-wrap=\"true\"] pre {", "\n", "\t", "\t",
    "min-height: var(--line-height);", "\n", "\t", "\t", "height: auto;", "\n", "\t", "\t",
    "white-space: pre-wrap;", "\n", "\t", "}", "\n", "\t",
    ".highlight-main .highlight-indent {", "\n", "\t", "\t",
    "border-left: 1px solid #505050;", "\n", "\t", "\t", "position: absolute;", "\n", "\t",
    "\t", "height: var(--line-height);", "\n", "\t", "}", "\n", "\t",
    ".highlight-main tr.selected pre {", "\n", "\t", "\t",
    "box-shadow: 0 0 0 1px var(--SELECTED_LINE), inset 0 0 0 1px var(--SELECTED_LINE);",
    "\n", "\t", "}", "\n", "\t", ".highlight-main *::-moz-selection {", "\n", "\t", "\t",
    "background: var(--SELECTION);", "\n", "\t", "}", "\n", "\t",
    ".highlight-main *::selection {", "\n", "\t", "\t", "background: var(--SELECTION);",
    "\n", "\t", "}"
>>

\* var js
js == "toggleClass(get(this, '.selected'), 'selected', false); toggleClass(event.composedPath().filter(e => e.tagName && e.tagName.toLowerCase() == 'tr')[0], 'selected', true);"

\* HIGHLIGHTER.reduce((prev, {key, value}) => prev + "--" + key + ": " + value + ";\n", "")
\* for the entries from k on
RECURSIVE ColorVariablesFrom(_)
ColorVariablesFrom(k) ==
    IF k > Len(HIGHLIGHTER) THEN <<>>
    ELSE <<"--" \o HIGHLIGHTER[k].key \o ": " \o HIGHLIGHTER[k].value \o ";", "\n">>
         \o ColorVariablesFrom(k + 1)

\* `${b}` of a boolean
BoolText(b) == IF b THEN "true" ELSE "false"

\* the template literal of the return statement around the rows
Markup(rows, wl, st, cv, as) ==
    <<"\n", "\t", "\t", "<div", " ",
      "\n", "\t", "\t", "\t", "class=\"highlight-main\"",
      "\n", "\t", "\t", "\t", "line-wrap=\"" \o BoolText(wl) \o "\"",
      "\n", "\t", "\t", "\t", "style=\"",
      "\n", "\t", "\t", "\t", "\t", "--line-height: " \o ToString(DefaultLineHeight) \o "px;",
      "\n", "\t", "\t", "\t", "\t", "--font-size: " \o ToString(DefaultFontSize) \o "px;",
      "\n", "\t", "\t", "\t", "\t">>
    \o (IF cv THEN ColorVariablesFrom(1) ELSE <<>>)
    \o <<"\n", "\t", "\t", "\t", "\"",
         "\n", "\t", "\t", "\t">>
    \o (IF as THEN <<"onmousedown=\"" \o js \o "\"">> ELSE <<>>)
    \o <<"\n", "\t", "\t", ">",
         "\n", "\t", "\t", "\t">>
    \o (IF st THEN <<"<style class=\"highlight-style\">">> \o css \o <<"</style>">> ELSE <<>>)
    \o <<"\n", "\t", "\t", "\t", "<table class=\"highlight-table\">">>
    \o rows
    \o <<"</table>",
         "\n", "\t", "\t", "</div>",
         "\n", "\t">>

\* a fragment that is one whitespace character
IsBlank(f) == IsSpace(f)

\* a fragment that is left after a replacement
Kept(f) == f # ""

\* .replace(/\s{2,}/g, " "): every maximal run of two or more whitespace
\* characters becomes one space
Collapse(s) ==
    SelectSeq([k \in 1..Len(s) |->
                  IF ~IsBlank(s[k]) THEN s[k]
                  ELSE IF k > 1 /\ IsBlank(s[k - 1]) THEN ""
                  ELSE IF k < Len(s) /\ IsBlank(s[k + 1]) THEN " "
                  ELSE s[k]],
              Kept)

\* a fragment that is no line break
NoLineBreak(f) == f \notin {"\n", "\r"}

\* a fragment that is no carriage return
NoCarriageReturn(f) == f # "\r"

\* StripLineBreaks leaving the line feeds in
StripCarriageReturnsOnly(s) == SelectSeq(s, NoCarriageReturn)

\* .replace(/(\n|\r)/g, "")
StripLineBreaks(s) == SelectSeq(s, NoLineBreak)

\* .trim()
Trim(s) ==
    LET solid == {k \in 1..Len(s) : ~IsBlank(s[k])}
    IN  IF solid = {} THEN <<>>
        ELSE SubSeq(s, Least(solid), CHOOSE k \in solid : \A j \in solid : j <= k)

---------------------------------------------------------------------------
(* class ComplexNumber: the memoized parse regular expression and the      *)
(* constructor.  A JavaScript value that the constructor handles is a      *)
(* record [kind, text]: a string with its characters, undefined, NaN, or a *)
(* number with the text it was parsed from.                                *)

\* const DIGITS, SIGN, IDENTIFIER
DIGITS == "([0-9.]+)"

SIGN == "([+-])"

IDENTIFIER == "([a-z])"

\* const syntax: the pieces that follow `${SIGN}?` in each alternative
\* ("D" for ${DIGITS}, "S" for ${SIGN}, "I" for ${IDENTIFIER})
syntax == <<
    <<"D", "S", "D", "I">>,     \*  1  a+bi
    <<"D", "S", "I", "D">>,     \*  6  a+ib
    <<"D", "I", "S", "D">>,     \* 11  bi+a
    <<"I", "D", "S", "D">>,     \* 16  ib+a
    <<"D">>,                    \* 21  a
    <<"D", "I">>,               \* 23  bi
    <<"I", "D">>                \* 26  ib
>>

\* the text of one piece of an alternative
PieceText(k) == CASE k = "D" -> DIGITS [] k = "S" -> SIGN [] k = "I" -> IDENTIFIER

\* the template literal of the alternative with the pieces ps
RECURSIVE PiecesText(_)
PiecesText(ps) == IF ps = <<>> THEN "" ELSE PieceText(Head(ps)) \o PiecesText(Tail(ps))

\* syntax.join("|") for the alternatives from a on
RECURSIVE JoinSyntax(_)
JoinSyntax(a) ==
    SIGN \o "?" \o PiecesText(syntax[a])
    \o (IF a = Len(syntax) THEN "" ELSE "|" \o JoinSyntax(a + 1))

\* `^(?:${syntax.join("|")})$`
ParseSource == "^(?:" \o JoinSyntax(1) \o ")$"

\* ComplexNumber.__parseRegex before the first call: undefined
NoRegExp == [id |-> 0, source |-> "", flags |-> "", lastIndex |-> 0]

\* new RegExp(`^(?:${syntax.join("|")})$`, "mi"): the object number id
NewRegExp(id) == [id |-> id, source |-> ParseSource, flags |-> "mi", lastIndex |-> 0]

\* __getParseRegex without the assignment to this.__parseRegex
GetParseRegexNoStore(cache, n) ==
    IF cache # NoRegExp THEN [value |-> cache, cache |-> cache, allocated |-> n]
    ELSE [value |-> NewRegExp(n + 1), cache |-> cache, allocated |-> n + 1]

\* static __getParseRegex(): the value returned, and __parseRegex and the
\* number of objects created after the call
GetParseRegex(cache, n) ==
    IF cache # NoRegExp THEN [value |-> cache, cache |-> cache, allocated |-> n]
    ELSE [value |-> NewRegExp(n + 1), cache |-> NewRegExp(n + 1), allocated |-> n + 1]

\* the JavaScript values of the constructor
StringOf(t) == [kind |-> "string", text |-> t]

Undefined == [kind |-> "undefined", text |-> <<>>]

NaN == [kind |-> "NaN", text |-> <<>>]

NumberOf(t) == [kind |-> "number", text |-> t]

\* the class of a character under flags "mi": "S" for [+-], "D" for [0-9.],
\* "I" for [a-z] without regard to case, "X" otherwise
ClassOf(c) ==
    IF c \in {"+", "-"} THEN "S"
    ELSE IF c \in Digits \cup {"."} THEN "D"
    ELSE IF c \in Letters THEN "I"
    ELSE "X"

\* the end of the greedy run [0-9.]+ that starts at offset e
RECURSIVE RunEnd(_, _)
RunEnd(s, e) == IF e < Len(s) /\ ClassOf(At(s, e)) = "D" THEN RunEnd(s, e + 1) ELSE e

\* the pieces ps matched against s from offset p on, up to the end of the
\* input: the texts of their groups, <<>> when they do not match.  Two
\* ${DIGITS} never follow each other, so each takes its whole run.
RECURSIVE MatchPieces(_, _, _)
MatchPieces(ps, s, p) ==
    IF ps = <<>> THEN (IF p = Len(s) THEN <<<<>>>> ELSE <<>>)
    ELSE IF p >= Len(s) \/ ClassOf(At(s, p)) # Head(ps) THEN <<>>
    ELSE LET e    == IF Head(ps) = "D" THEN RunEnd(s, p) ELSE p + 1
             rest == MatchPieces(Tail(ps), s, e)
         IN  IF rest = <<>> THEN <<>>
             ELSE <<Sub(s, p, e)>> \o rest

\* alternative a against the whole input: the groups of the alternative,
\* the optional sign first, <<>> when it does not match
MatchAlternative(a, s) ==
    LET signed == s # <<>> /\ ClassOf(s[1]) = "S"
        groups == MatchPieces(syntax[a], s, IF signed THEN 1 ELSE 0)
    IN  IF groups = <<>> THEN <<>>
        ELSE <<IF signed THEN StringOf(<<s[1]>>) ELSE Undefined>>
             \o [k \in 1..Len(syntax[a]) |-> StringOf(groups[k])]

\* the number of the first group of alternative a
RECURSIVE FirstGroup(_)
FirstGroup(a) == IF a = 1 THEN 1 ELSE FirstGroup(a - 1) + 1 + Len(syntax[a - 1])

\* input.match(regex) for an input of one line: match[n] for every group
\* n, <<>> for null
MatchGroups(s) ==
    LET alts == {a \in 1..Len(syntax) : MatchAlternative(a, s) # <<>>}
    IN  IF alts = {} THEN <<>>
        ELSE LET a == Least(alts)
                 g == MatchAlternative(a, s)
             IN  [n \in 1..(FirstGroup(Len(syntax)) + Len(syntax[Len(syntax)])) |->
                     IF n >= FirstGroup(a) /\ n < FirstGroup(a) + Len(g)
                     THEN g[n - FirstGroup(a) + 1]
                     ELSE Undefined]

\* x + y for operands that are strings or undefined
Plus(x, y) ==
    IF x = Undefined /\ y = Undefined THEN NaN
    ELSE StringOf((IF x = Undefined THEN <<"undefined">> ELSE x.text)
                  \o (IF y = Undefined THEN <<"undefined">> ELSE y.text))

\* the value converts to true
Truthy(x) == x.kind = "string" /\ x.text # <<>>

\* x || y
Or(x, y) == IF Truthy(x) THEN x ELSE y

\* input.replace(/\s/g, "")
RECURSIVE StripSpace(_)
StripSpace(s) ==
    IF s = <<>> THEN <<>>
    ELSE (IF IsSpace(Head(s)) THEN <<>> ELSE <<Head(s)>>) \o StripSpace(Tail(s))

\* parseFloat(t): the number read from the longest prefix that is a decimal
\* literal (no exponent can occur in the inputs), NaN when there is none
ParseFloat(t) ==
    LET d0 == IF t # <<>> /\ t[1] \in {"+", "-"} THEN 1 ELSE 0
        d1 == DigitsEnd(t, d0)
        d2 == IF d1 < Len(t) /\ At(t, d1) = "." THEN DigitsEnd(t, d1 + 1) ELSE d1
    IN  IF d1 > d0 THEN NumberOf(Sub(t, 0, d2))
        ELSE IF d2 > d1 + 1 THEN NumberOf(Sub(t, 0, d2))
        ELSE NaN

\* the object a successful construction leaves, and the thrown TypeError
Constructed(r, i, unit) == [ok |-> TRUE, r |-> r, i |-> i, unit |-> unit]

TypeError == [ok |-> FALSE, r |-> NaN, i |-> NaN, unit |-> <<>>]

\* the branch of the constructor for a string input, after the match m
FromMatch(m, unit) ==
    LET r0 == Or(Plus(m[1], m[2]), Or(Plus(m[6], m[7]), Or(Plus(m[14], m[15]),
              Or(Plus(m[19], m[20]), Plus(m[21], m[22])))))
        i0 == Or(Plus(m[3], m[4]), Or(Plus(m[8], m[10]), Or(Plus(m[11], m[12]),
              Or(Plus(m[16], m[18]), Or(Plus(m[23], m[24]), Plus(m[26], m[28]))))))
        r_s == IF Truthy(r0) THEN r0.text ELSE <<"0">>
        i_s == IF Truthy(i0) THEN i0.text ELSE <<"0">>
    IN  IF ParseFloat(r_s) = NaN \/ ParseFloat(i_s) = NaN THEN TypeError
        ELSE Constructed(ParseFloat(r_s), ParseFloat(i_s), unit)

\* the branch of the constructor for an array input
FromArray(parts, unit) ==
    IF ParseFloat(parts[1]) = NaN \/ ParseFloat(parts[2]) = NaN THEN TypeError
    ELSE IF Len(unit) # 1 \/ ClassOf(unit[1]) # "I" THEN TypeError
    ELSE Constructed(ParseFloat(parts[1]), ParseFloat(parts[2]), unit)

---------------------------------------------------------------------------
(* Highlight as a state machine: one call per behaviour.                   *)

\* the environment and bookkeeping of a call that has just been entered
Entered ==
    /\ pc = "escape"
    /\ positions = <<>>
    /\ next = 1
    /\ offset = 0
    /\ Start = -1
    /\ End = -1
    /\ accepted = <<>>
    /\ failed = FALSE
    /\ calls = <<>>
    /\ lines = <<>>
    /\ result = <<>>
    /\ thrown = FALSE

\* the class as loaded: nothing cached, nothing constructed
ComplexLoaded ==
    /\ parseRegex = NoRegExp
    /\ allocated = 0
    /\ served = <<>>
    /\ numbers = <<>>

\* new EventListener.Listener(type, callback): the id tells the objects apart
Listener(id, type) == [id |-> id, type |-> type]

\* the value that stands for no array in listenersMap
NoList == <<Listener(0, "undefined")>>

\* the value of eventType while no dispatch is in progress
NoEvent == "none"

\* event types used
Types == {"a", "b"}

\* no gaussian draw has been called
GaussianIdle ==
    /\ generator = "randomGaussian"
    /\ min = 0
    /\ max = 0
    /\ num = 0
    /\ frames = 0
    /\ gpc = "idle"
    /\ returned = 0

\* new EventListener(): this.listenersMap = new Map()
NewEventListener ==
    /\ listenersMap = [t \in Types |-> NoList]
    /\ created = <<>>
    /\ eventType = NoEvent
    /\ cursor = 0
    /\ isStopped = FALSE
    /\ registered = <<>>
    /\ invoked = <<>>

\* the defaults of the options that only the returned markup reads
DefaultWrapper ==
    /\ wrapLines = FALSE
    /\ style = TRUE
    /\ colorVariables = TRUE
    /\ allowSelection = FALSE

\* a call with default options on any input over Alphabet or on a member
\* of Examples, or with any
\* line options on an input over LineAlphabet, or with any markup options on
\* a short input; with or without the callback, on an engine with or
\* without lookbehind support
Init ==
    /\ \/ /\ originalString \in StringsUpTo(Alphabet, MaxLen)
          /\ tabSize = DefaultTabSize
          /\ indentLines = TRUE
          /\ lineNumbers = TRUE
          /\ DefaultWrapper
       \/ /\ originalString \in Examples
          /\ tabSize = DefaultTabSize
          /\ indentLines = TRUE
          /\ lineNumbers = TRUE
          /\ DefaultWrapper
       \/ /\ originalString \in StringsUpTo(LineAlphabet, MaxLen)
          /\ tabSize \in TabSizes \cup {DefaultTabSize}
          /\ indentLines \in BOOLEAN
          /\ lineNumbers \in BOOLEAN
          /\ DefaultWrapper
       \/ /\ originalString \in StringsUpTo(LineAlphabet, MaxWrapLen)
          /\ tabSize = DefaultTabSize
          /\ indentLines = TRUE
          /\ lineNumbers = TRUE
          /\ wrapLines \in BOOLEAN
          /\ style \in BOOLEAN
          /\ colorVariables \in BOOLEAN
          /\ allowSelection \in BOOLEAN
    /\ str = originalString
    /\ onerror \in BOOLEAN
    /\ lookbehind \in BOOLEAN
    /\ Entered
    /\ ComplexLoaded
    /\ GaussianIdle
    /\ NewEventListener

\* var originalString = str; the two replace calls that escape ">" and "<"
EscapeInput ==
    /\ pc = "escape"
    /\ str' = Escape(str)
    /\ pc' = "scan"
    /\ UNCHANGED <<complex, gaussian, events, wrapper, originalString, tabSize, indentLines, lineNumbers, onerror,
                   lookbehind, positions, next, offset, Start, End, accepted,
                   failed, calls, lines, result, thrown>>

\* Scan without the try block: the exception leaves Highlight
ScanUncaught ==
    /\ pc = "scan"
    /\ LET scanned == ScanRules(1, str, lookbehind, <<>>)
       IN  /\ positions' = scanned.positions
           /\ pc' = IF scanned.threw THEN "done" ELSE "sort"
           /\ thrown' = scanned.threw
    /\ UNCHANGED <<complex, gaussian, events, wrapper, originalString, str, tabSize, indentLines, lineNumbers, onerror,
                   lookbehind, next, offset, Start, End, accepted, failed, calls,
                   lines, result>>

\* the for-in loop over Colors inside try
Scan ==
    /\ pc = "scan"
    /\ LET scanned == ScanRules(1, str, lookbehind, <<>>)
       IN  /\ positions' = scanned.positions
           /\ pc' = IF scanned.threw THEN "catch" ELSE "sort"
    /\ UNCHANGED <<complex, gaussian, events, wrapper, originalString, str, tabSize, indentLines, lineNumbers, onerror,
                   lookbehind, next, offset, Start, End, accepted, failed, calls,
                   lines, result, thrown>>

\* positions.sort(...); var offset = 0; var Start = -1; var End = -1
Sort ==
    /\ pc = "sort"
    /\ positions' = SortPositions(positions)
    /\ offset' = 0
    /\ Start' = -1
    /\ End' = -1
    /\ next' = 1
    /\ pc' = "compose"
    /\ UNCHANGED <<complex, gaussian, events, wrapper, originalString, str, tabSize, indentLines, lineNumbers, onerror,
                   lookbehind, accepted, failed, calls, lines, result, thrown>>

\* one iteration of for(var position of positions) that hits continue
ComposeSkip ==
    /\ pc = "compose"
    /\ next <= Len(positions)
    /\ Collides(positions[next][1], End)
    /\ next' = next + 1
    /\ UNCHANGED <<complex, gaussian, events, wrapper, originalString, str, tabSize, indentLines, lineNumbers, onerror,
                   lookbehind, pc, positions, offset, Start, End, accepted, failed,
                   calls, lines, result, thrown>>

\* one iteration of for(var position of positions) that wraps the span
ComposeAccept ==
    /\ pc = "compose"
    /\ next <= Len(positions)
    /\ ~Collides(positions[next][1], End)
    /\ Start' = positions[next][1]
    /\ End' = positions[next][3]
    /\ str' = Wrap(str, positions[next], offset)
    /\ offset' = offset + Len(OpenTag(positions[next][2])) + Len(CloseTag)
    /\ accepted' = Append(accepted, positions[next])
    /\ next' = next + 1
    /\ UNCHANGED <<complex, gaussian, events, wrapper, originalString, tabSize, indentLines, lineNumbers, onerror,
                   lookbehind, pc, positions, failed, calls, lines, result, thrown>>

\* the loop is over: the newline post-processing of the wrapped spans
Post ==
    /\ pc = "compose"
    /\ next > Len(positions)
    /\ str' = PostProcess(str)
    /\ pc' = "tabs"
    /\ UNCHANGED <<complex, gaussian, events, wrapper, originalString, tabSize, indentLines, lineNumbers, onerror,
                   lookbehind, positions, next, offset, Start, End, accepted,
                   failed, calls, lines, result, thrown>>

\* Catch handing the callback the working string instead of the original
CatchEscapedText ==
    /\ pc = "catch"
    /\ calls' = IF onerror
                THEN Append(calls, [error |-> "SyntaxError", text |-> str])
                ELSE calls
    /\ failed' = TRUE
    /\ pc' = "tabs"
    /\ UNCHANGED <<complex, gaussian, events, wrapper, originalString, str, tabSize, indentLines, lineNumbers, onerror,
                   lookbehind, positions, next, offset, Start, End, accepted,
                   lines, result, thrown>>

\* Catch going on with the unescaped original text
CatchRestoresOriginal ==
    /\ pc = "catch"
    /\ calls' = IF onerror
                THEN Append(calls, [error |-> "SyntaxError", text |-> originalString])
                ELSE calls
    /\ failed' = TRUE
    /\ str' = originalString
    /\ pc' = "tabs"
    /\ UNCHANGED <<complex, gaussian, events, wrapper, originalString, tabSize, indentLines, lineNumbers, onerror,
                   lookbehind, positions, next, offset, Start, End, accepted,
                   lines, result, thrown>>

\* catch(e): if(onerror) onerror(e, originalString); failed = true
Catch ==
    /\ pc = "catch"
    /\ calls' = IF onerror
                THEN Append(calls, [error |-> "SyntaxError", text |-> originalString])
                ELSE calls
    /\ failed' = TRUE
    /\ pc' = "tabs"
    /\ UNCHANGED <<complex, gaussian, events, wrapper, originalString, str, tabSize, indentLines, lineNumbers, onerror,
                   lookbehind, positions, next, offset, Start, End, accepted,
                   lines, result, thrown>>

\* str.replace(/\t/g, TAB) and str.replace(/  /g, "&nbsp;&nbsp;")
ReplaceWhitespace ==
    /\ pc = "tabs"
    /\ str' = ReplaceSpaces(ReplaceTabs(str, tabSize))
    /\ pc' = "infer"
    /\ UNCHANGED <<complex, gaussian, events, wrapper, originalString, tabSize, indentLines, lineNumbers, onerror,
                   lookbehind, positions, next, offset, Start, End, accepted,
                   failed, calls, lines, result, thrown>>

\* var lines = str.split("\n"), the first loop, str = lines.join("\n") and
\* the second split
Infer ==
    /\ pc = "infer"
    /\ str' = JoinLines(InferIndent(SplitLines(str), 1, tabSize))
    /\ lines' = SplitLines(str')
    /\ pc' = "rows"
    /\ UNCHANGED <<complex, gaussian, events, wrapper, originalString, tabSize, indentLines, lineNumbers, onerror,
                   lookbehind, positions, next, offset, Start, End, accepted,
                   failed, calls, result, thrown>>

\* the second loop: every line becomes its row, with guides when enabled
Rows ==
    /\ pc = "rows"
    /\ lines' = RenderRows(lines, 1, tabSize, indentLines, lineNumbers, failed)
    /\ pc' = "return"
    /\ UNCHANGED <<complex, gaussian, events, wrapper, originalString, str, tabSize, indentLines, lineNumbers, onerror,
                   lookbehind, positions, next, offset, Start, End, accepted,
                   failed, calls, result, thrown>>

\* return: the template literal around ${lines.join("")}, normalised
Return ==
    /\ pc = "return"
    /\ result' = Trim(StripLineBreaks(Collapse(
                      Markup(Concat(lines), wrapLines, style, colorVariables,
                             allowSelection))))
    /\ pc' = "done"
    /\ UNCHANGED <<complex, gaussian, events, wrapper, originalString, str, tabSize, indentLines, lineNumbers, onerror,
                   lookbehind, positions, next, offset, Start, End, accepted,
                   failed, calls, lines, thrown>>

Next ==
    \/ EscapeInput
    \/ Scan
    \/ Sort
    \/ ComposeSkip
    \/ ComposeAccept
    \/ Post
    \/ Catch
    \/ ReplaceWhitespace
    \/ Infer
    \/ Rows
    \/ Return

Spec == Init /\ [][Next]_vars

---------------------------------------------------------------------------
(* ComplexNumber as a state machine: a sequence of constructions.          *)

\* most constructions in one behaviour
MaxConstructions == 2

\* longest enumerated string input of the constructor
ComplexMaxLen == 2

\* characters the enumerated string inputs are made of
ComplexAlphabet == {"+", "-", "1", ".", "i"}

\* longer string inputs, among them one for each of the first four alternatives
ComplexExamples == {
    <<"+", "1", "i">>,
    <<"-", "i", "1">>,
    <<"+", "1", ".", "1">>,
    <<"+", "1", "+", "1", "i">>,
    <<"1", "+", "1", "i">>,
    <<"-", "1", "-", "i", "1">>,
    <<"+", "1", "i", " ", "+", " ", "1">>,
    <<"+", "i", "1", "+", "1">>
}

\* imaginary units passed by the caller
Units == {<<"i">>, <<"1">>, <<"i", "j">>}

\* input[0] + "" and input[1] + "" of the array inputs
ArrayParts == {<<"1">>, <<"-", "1", ".", "1">>, <<"i">>}

\* new ComplexNumber(input, unit) with a string: the whitespace is removed
\* (the second replace matches no character of the inputs), the input is
\* matched against __getParseRegex() and the parts are parsed
ConstructFromString(input, unit) ==
    /\ Len(numbers) < MaxConstructions
    /\ LET got == GetParseRegex(parseRegex, allocated)
           m   == MatchGroups(StripSpace(input))
       IN  /\ parseRegex' = got.cache
           /\ allocated' = got.allocated
           /\ served' = Append(served, got.value)
           /\ numbers' = Append(numbers, IF m = <<>> THEN TypeError ELSE FromMatch(m, unit))
    /\ UNCHANGED <<highlight, gaussian, events>>

\* new ComplexNumber(input, unit) with an array
ConstructFromArray(parts, unit) ==
    /\ Len(numbers) < MaxConstructions
    /\ numbers' = Append(numbers, FromArray(parts, unit))
    /\ UNCHANGED <<parseRegex, allocated, served, highlight, gaussian, events>>

\* new ComplexNumber(input) with any other value: the TypeError of the else branch
ConstructFromOther ==
    /\ Len(numbers) < MaxConstructions
    /\ numbers' = Append(numbers, TypeError)
    /\ UNCHANGED <<parseRegex, allocated, served, highlight, gaussian, events>>

ComplexInit ==
    /\ ComplexLoaded
    /\ originalString = <<>>
    /\ str = <<>>
    /\ tabSize = DefaultTabSize
    /\ indentLines = TRUE
    /\ lineNumbers = TRUE
    /\ DefaultWrapper
    /\ onerror = FALSE
    /\ lookbehind = TRUE
    /\ Entered
    /\ GaussianIdle
    /\ NewEventListener

ComplexNext ==
    \/ \E input \in StringsUpTo(ComplexAlphabet, ComplexMaxLen) \cup ComplexExamples,
          unit \in Units : ConstructFromString(input, unit)
    \/ \E a, b \in ArrayParts, unit \in Units : ConstructFromArray(<<a, b>>, unit)
    \/ ConstructFromOther

ComplexSpec == ComplexInit /\ [][ComplexNext]_vars

---------------------------------------------------------------------------
(* randomGaussian(min, max, skew = 1) and RandomGenerator.gaussian as a    *)
(* state machine.  A number is held in fixed point: the integer n stands   *)
(* for n / Unit.  The value of                                             *)
(*   Math.sqrt(-2 * Math.log(u)) * Math.cos(2 * Math.PI * v) / 10 + 0.5    *)
(* for the two random draws u, v is a choice among the multiples of        *)
(* 1 / Unit from -1 / Unit to 1 + 1 / Unit: the expression exceeds the     *)
(* interval [0, 1] on both sides for small u.  skew is 1, so               *)
(* Math.pow(num, skew) is num.                                             *)

\* the fixed-point representation of 1
Unit == 4

\* largest value of min and max, which are integers from -1 on
MaxBound == 2

\* most activations of the function on the stack
MaxFrames == 2

\* the values of num after "Translate to 0 -> 1"
Draws == (0 - 1)..(Unit + 1)

\* the two functions
Generators == {"randomGaussian", "RandomGenerator.gaussian"}

\* num > 1 || num < 0
OutOfRange(n) == n > Unit \/ n < 0

\* num = Math.pow(num, skew); num *= max - min; num += min
Stretch(n, mn, mx) == n * (mx - mn) + mn * Unit

\* a call of one of the two functions from outside
GaussianCall(fn, mn, mx) ==
    /\ gpc \in {"idle", "returned"}
    /\ generator' = fn
    /\ min' = mn
    /\ max' = mx
    /\ num' = 0
    /\ frames' = 1
    /\ gpc' = "draw"
    /\ returned' = 0
    /\ UNCHANGED <<highlight, complex, events>>

\* the two while loops and let num = ...; num = num / 10.0 + 0.5 with a value
\* in range
GaussianDraw(n) ==
    /\ gpc = "draw"
    /\ ~OutOfRange(n)
    /\ num' = n
    /\ gpc' = "stretch"
    /\ UNCHANGED <<generator, min, max, frames, returned, highlight, complex, events>>

\* the same with a value out of range: the function calls itself
GaussianResample(n) ==
    /\ gpc = "draw"
    /\ OutOfRange(n)
    /\ frames < MaxFrames
    /\ num' = n
    /\ frames' = frames + 1
    /\ UNCHANGED <<generator, min, max, gpc, returned, highlight, complex, events>>

\* skew, stretch, offset and return num of an inner activation: the value
\* becomes num of the activation that called
GaussianReturnInner ==
    /\ gpc = "stretch"
    /\ frames > 1
    /\ num' = Stretch(num, min, max)
    /\ frames' = frames - 1
    /\ UNCHANGED <<generator, min, max, gpc, returned, highlight, complex, events>>

\* the same of the outermost activation: the value goes to the caller
GaussianReturn ==
    /\ gpc = "stretch"
    /\ frames = 1
    /\ returned' = Stretch(num, min, max)
    /\ frames' = 0
    /\ gpc' = "returned"
    /\ UNCHANGED <<generator, min, max, num, highlight, complex, events>>

\* no call of Highlight, no ComplexNumber, no EventListener in use
OthersAtRest ==
    /\ originalString = <<>>
    /\ str = <<>>
    /\ tabSize = DefaultTabSize
    /\ indentLines = TRUE
    /\ lineNumbers = TRUE
    /\ DefaultWrapper
    /\ onerror = FALSE
    /\ lookbehind = TRUE
    /\ Entered
    /\ ComplexLoaded

GaussianInit == GaussianIdle /\ NewEventListener /\ OthersAtRest

GaussianNext ==
    \/ \E fn \in Generators, mn, mx \in (0 - 1)..MaxBound :
          mn <= mx /\ GaussianCall(fn, mn, mx)
    \/ \E n \in Draws : GaussianDraw(n)
    \/ \E n \in Draws : GaussianResample(n)
    \/ GaussianReturnInner
    \/ GaussianReturn

GaussianSpec == GaussianInit /\ [][GaussianNext]_vars

---------------------------------------------------------------------------
(* EventListener as a state machine: calls of addEventListener,            *)
(* removeEventListener and dispatchEvent from outside, and the calls of    *)
(* the listeners during a synchronous dispatch, one step per listener.     *)
(* A listener called by the dispatch does nothing, stops the propagation,  *)
(* removes a listener or adds one.  No listener is registered for          *)
(* LISTENER_ADD_EVENT, so the dispatch inside addEventListener finds no    *)
(* listeners and calls its default handler right away.                     *)

\* most Listener objects created in one behaviour
MaxListeners == 3

\* the callback of addEventListener: set a new array or push to the array
Push(map, listener) ==
    IF map[listener.type] = NoList
    THEN [map EXCEPT ![listener.type] = <<listener>>]
    ELSE [map EXCEPT ![listener.type] = Append(@, listener)]

\* listeners.indexOf(listener), 1-based, 0 when the listener is not found
IndexOfListener(listeners, listener) ==
    LET hits == {k \in 1..Len(listeners) : listeners[k] = listener}
    IN  IF hits = {} THEN 0 ELSE Least(hits)

\* removeEventListener(listener): the map afterwards
Remove(map, listener) ==
    LET listeners == map[listener.type]
        index     == IndexOfListener(listeners, listener)
    IN  IF listeners = NoList \/ index = 0 THEN map
        ELSE [map EXCEPT ![listener.type] =
                 SubSeq(listeners, 1, index - 1)
                 \o SubSeq(listeners, index + 1, Len(listeners))]

\* hasListeners(type)
HasListeners(map, type) == map[type] # NoList

\* what a listener does when it is called
Effects ==
    {[kind |-> "none", listener |-> Listener(0, "undefined")],
     [kind |-> "stop", listener |-> Listener(0, "undefined")]}
    \cup {[kind |-> "remove", listener |-> created[k]] : k \in 1..Len(created)}
    \cup {[kind |-> "add", listener |-> Listener(Len(created) + 1, t)] : t \in Types}

\* addEventListener(type, callback) called from outside a dispatch
AddEventListener(type) ==
    /\ eventType = NoEvent
    /\ Len(created) < MaxListeners
    /\ created' = Append(created, Listener(Len(created) + 1, type))
    /\ listenersMap' = Push(listenersMap, Listener(Len(created) + 1, type))
    /\ UNCHANGED <<eventType, cursor, isStopped, registered, invoked,
                   highlight, complex, gaussian>>

\* removeEventListener(listener) called from outside a dispatch
RemoveEventListener(listener) ==
    /\ eventType = NoEvent
    /\ listenersMap' = Remove(listenersMap, listener)
    /\ UNCHANGED <<created, eventType, cursor, isStopped, registered, invoked,
                   highlight, complex, gaussian>>

\* dispatchEvent(type) of a synchronous event without default handler, up
\* to the for-of loop
DispatchEvent(type) ==
    /\ eventType = NoEvent
    /\ eventType' = IF listenersMap[type] = NoList THEN NoEvent ELSE type
    /\ registered' = IF listenersMap[type] = NoList THEN <<>> ELSE listenersMap[type]
    /\ cursor' = 0
    /\ isStopped' = FALSE
    /\ invoked' = <<>>
    /\ UNCHANGED <<listenersMap, created, highlight, complex, gaussian>>

\* one iteration of for(const listener of listeners): the array iterator
\* reads the element at its index in the array as it is now, and the
\* listener is called
CallListener(effect) ==
    /\ eventType # NoEvent
    /\ ~isStopped
    /\ cursor < Len(listenersMap[eventType])
    /\ effect.kind = "add" => Len(created) < MaxListeners
    /\ invoked' = Append(invoked, listenersMap[eventType][cursor + 1])
    /\ cursor' = cursor + 1
    /\ isStopped' = (effect.kind = "stop")
    /\ listenersMap' = CASE effect.kind = "remove" -> Remove(listenersMap, effect.listener)
                         [] effect.kind = "add"    -> Push(listenersMap, effect.listener)
                         [] OTHER                  -> listenersMap
    /\ created' = IF effect.kind = "add" THEN Append(created, effect.listener) ELSE created
    /\ UNCHANGED <<eventType, registered, highlight, complex, gaussian>>

\* the loop ends: the iterator is past the end of the array, or isStopped
DispatchEnd ==
    /\ eventType # NoEvent
    /\ isStopped \/ cursor >= Len(listenersMap[eventType])
    /\ eventType' = NoEvent
    /\ UNCHANGED <<listenersMap, created, cursor, isStopped, registered, invoked,
                   highlight, complex, gaussian>>

EventsInit == NewEventListener /\ GaussianIdle /\ OthersAtRest

EventsNext ==
    \/ \E type \in Types : AddEventListener(type)
    \/ \E k \in 1..Len(created) : RemoveEventListener(created[k])
    \/ \E type \in Types : DispatchEvent(type)
    \/ \E effect \in Effects : CallListener(effect)
    \/ DispatchEnd

EventsSpec == EventsInit /\ [][EventsNext]_vars

---------------------------------------------------------------------------
(* Properties.                                                             *)

\* the escaped text the scanner runs on
EscapedText == Escape(originalString)

\* the number of "\n" in a string
NewlineCount(s) == Cardinality({k \in 1..Len(s) : s[k] = "\n"})

\* the number of fragments of s that belong to the set F
CountIn(s, F) == Cardinality({k \in 1..Len(s) : s[k] \in F})

\* the compositor loop has run to its end
Composited == pc \in {"tabs", "infer", "rows", "return", "done"} /\ ~failed

\* C1: span non-overlap.  Any two accepted spans s1, s2 with
\* s1.start < s2.start satisfy s2.start >= s1.end, and no two accepted
\* spans share a character position.
C1_SpanNonOverlap ==
    /\ \A i, j \in 1..Len(accepted) :
          accepted[i][1] < accepted[j][1] => accepted[j][1] >= accepted[i][3]
    /\ \A i, j \in 1..Len(accepted) :
          i # j => {x \in accepted[i][1]..(accepted[i][3] - 1) :
                       x \in accepted[j][1]..(accepted[j][3] - 1)} = {}

\* C1 witness: the walk is over, two spans were accepted and a candidate
\* that started inside an accepted span was discarded
C1_Witness ==
    /\ Composited
    /\ Len(accepted) >= 2
    /\ \E k \in 1..Len(positions), i \in 1..Len(accepted) :
          /\ accepted[i][1] < positions[k][1]
          /\ positions[k][1] < accepted[i][3]

\* C2: tie-break.  An accepted span comes from the earliest declared rule
\* among the candidates that start at its offset; after the walk, the
\* candidate of the earliest rule at an offset that no accepted span from
\* an earlier offset covers is the accepted one.
C2_TieBreak ==
    /\ \A i \in 1..Len(accepted), k \in 1..Len(positions) :
          positions[k][1] = accepted[i][1] => accepted[i][4] <= positions[k][4]
    /\ Composited =>
          \A k \in 1..Len(positions) :
             \/ \E i \in 1..Len(accepted) :
                   /\ accepted[i][1] = positions[k][1]
                   /\ accepted[i][4] <= positions[k][4]
             \/ \E i \in 1..Len(accepted) :
                   /\ accepted[i][1] < positions[k][1]
                   /\ positions[k][1] < accepted[i][3]

\* C2 witness: an accepted span of an earlier rule whose start is also the
\* start of a candidate of a later rule
C2_Witness ==
    /\ Composited
    /\ \E i \in 1..Len(accepted), k \in 1..Len(positions) :
          /\ positions[k][1] = accepted[i][1]
          /\ positions[k][4] > accepted[i][4]
          /\ accepted[i][2] = "COMMENT"

\* the number of row wrappers in the returned markup
RowCount(r) == CountIn(r, {"<tr class=\"highlight-tr\">"})

\* C3: round-trip line count.  No stage before the line split adds or
\* removes a newline, and on both paths the number of rows returned is the
\* number of "\n" in the input plus one.
C3_LineCount ==
    /\ pc \in {"escape", "scan", "sort", "compose", "catch", "tabs", "infer"}
          => NewlineCount(str) = NewlineCount(originalString)
    /\ pc \in {"rows", "return", "done"}
          => Len(lines) = NewlineCount(originalString) + 1
    /\ pc = "done" => RowCount(result) = NewlineCount(originalString) + 1

\* C3 witness: a finished call whose input ends with a blank line after a
\* line that was colored
C3_Witness ==
    /\ pc = "done"
    /\ accepted # <<>>
    /\ Len(originalString) >= 2
    /\ originalString[Len(originalString)] = "\n"
    /\ RowCount(result) >= 2

\* the text of the escaped input that a span covers fits the rule it is from
SpanOnEscaped(p) ==
    /\ 0 <= p[1]
    /\ p[1] < p[3]
    /\ p[3] <= Len(EscapedText)
    /\ LET text == Sub(EscapedText, p[1], p[3])
       IN  CASE p[4] = 21 -> text \in {<<"&", "l", "t", ";">>, <<"&", "g", "t", ";">>}
             [] p[4] = 22 -> Len(text) = 1 /\ IsArithmetic(text[1])
             [] p[4] \in {1, 2} -> Len(text) >= 2 /\ text[1] = "/"
             [] p[4] = 3  -> /\ text[1] \in Digits
                             /\ \A k \in 1..Len(text) : text[k] \in Digits \cup {"e"}
             [] p[4] = 5  -> Len(text) >= 2 /\ text[1] = "\"" /\ text[Len(text)] = "\""
             [] p[4] = 9  -> Len(text) >= 2 /\ text[1] \notin Digits
             [] p[4] = 14 -> text \in KeywordWords
             [] p[4] = 16 -> text \in StorageWords
             [] OTHER -> FALSE

\* C4: escaping is idempotent and happens once, before scanning; every
\* span offset refers to the escaped text.
C4_EscapeOnce ==
    /\ Escape(EscapedText) = EscapedText
    /\ pc \in {"scan", "sort", "catch"} => str = EscapedText
    /\ \A k \in 1..Len(positions) : SpanOnEscaped(positions[k])

\* C4 witness: the scan of an input with "<" produced a span that ends
\* beyond the length of the unescaped input
C4_Witness ==
    /\ pc = "sort"
    /\ \E k \in 1..Len(originalString) : originalString[k] = "<"
    /\ \E k \in 1..Len(positions) : positions[k][3] > Len(originalString)

\* C5: failure callback.  When the scan throws and a callback was supplied
\* it is invoked exactly once, with the error and the original unescaped
\* input; when nothing throws, or none was supplied, it is never invoked.
C5_FailureCallback ==
    /\ Len(calls) <= 1
    /\ \A k \in 1..Len(calls) : calls[k].text = originalString
    /\ (pc \in {"tabs", "infer", "rows", "return", "done"} /\ ~lookbehind /\ onerror)
          => Len(calls) = 1
    /\ (lookbehind \/ ~onerror) => calls = <<>>
    /\ lookbehind => ~failed /\ pc # "catch"

\* C5 witness: a finished call that failed on an input that escaping changes
C5_Witness ==
    /\ pc = "done"
    /\ failed
    /\ calls # <<>>
    /\ EscapedText # originalString

\* the per-category tags of the compositor
SpanTags == OpenTags \cup {CloseTag}

\* the <pre> tag of degraded mode and the one of the success path
NeutralPre == "<pre class=\"highlight-pre\" style=\"color: white;\">"

PlainPre == "<pre class=\"highlight-pre\" >"

\* the line-number cell expected in row i
NumberCell(i) ==
    IF lineNumbers
    THEN <<"<td class=\"highlight-line\">", "<div class=\"highlight-div\">",
           ToString(i), "</div>", "</td>">>
    ELSE <<>>

\* row i is a row wrapper with its line-number cell, one code cell and one
\* <pre> block, whose opening tag is pre
RowFrame(row, i, pre) ==
    LET n == Len(NumberCell(i))
    IN  /\ Len(row) >= n + 7
        /\ row[1] = "<tr class=\"highlight-tr\">"
        /\ SubSeq(row, 2, n + 1) = NumberCell(i)
        /\ row[n + 2] = "<td class=\"highlight-code\">"
        /\ row[n + 3] = pre
        /\ SubSeq(row, Len(row) - 2, Len(row)) = <<"</pre>", "</td>", "</tr>">>
        /\ CountIn(row, {NeutralPre, PlainPre}) = 1
        /\ CountIn(row, {"</pre>"}) = 1

\* C6: degraded mode without partial results.  After a failed scan no span
\* collected so far is applied: no color tag is in the text, the lines or
\* the result, every <pre> carries the neutral color, and the rows are
\* framed and numbered as the rows of a successful call are.
C6_DegradedMode ==
    /\ failed =>
          /\ accepted = <<>>
          /\ CountIn(str, SpanTags) = 0
          /\ \A i \in 1..Len(lines) : CountIn(lines[i], SpanTags) = 0
          /\ CountIn(result, SpanTags) = 0
    /\ pc = "done" =>
          /\ Len(lines) = NewlineCount(originalString) + 1
          /\ \A i \in 1..Len(lines) :
                RowFrame(lines[i], i, IF failed THEN NeutralPre ELSE PlainPre)

\* C6 witness: a finished failed call of two rows or more, whose scan had
\* collected spans before it failed
C6_Witness ==
    /\ pc = "done"
    /\ failed
    /\ positions # <<>>
    /\ Len(lines) >= 2

\* C7: containment of errors.  No exception leaves Highlight; every call,
\* failed or not, with or without the callback, goes on to return rows.
C7_ErrorsContained ==
    /\ ~thrown
    /\ pc \in {"escape", "scan", "sort", "compose", "catch", "tabs", "infer",
               "rows", "return", "done"}
    /\ pc = "compose" => next <= Len(positions) + 1
    /\ pc = "done" => RowCount(result) >= 1
    /\ (~lookbehind /\ pc \in {"tabs", "infer", "rows", "return", "done"}) => failed

\* C7 witness: a failed call without a callback has returned its rows
C7_Witness ==
    /\ pc = "done"
    /\ failed
    /\ ~onerror
    /\ RowCount(result) >= 1

\* C8: spans never hang across lines.  After the post-processing every
\* line of the annotated text has as many opening span tags as closing
\* span tags, whether the lines end with LF or with CRLF.
C8_NoHangingSpans ==
    pc = "tabs" =>
        \A i \in 1..Len(SplitLines(str)) :
            CountIn(SplitLines(str)[i], OpenTags) = CountIn(SplitLines(str)[i], {CloseTag})

\* the lines of the escaped input
RawLines == SplitLines(EscapedText)

\* a line that is empty or holds only a carriage return
IsBlankRaw(line) == line = <<>> \/ line = <<"\r">>

\* the number of complete groups of ts placeholders at the start of a line
LeadingDepth(line, ts) ==
    RunLength(ReplaceSpaces(ReplaceTabs(StripCR(line), ts)), 1) \div ts

\* C9: indent inference.  With default options, a blank line that follows
\* a line of leading-indent depth k is rendered with exactly k guide groups.
C9_IndentInference ==
    (pc = "done" /\ tabSize = DefaultTabSize /\ indentLines /\ lineNumbers) =>
        \A i \in 2..Len(RawLines) :
            (IsBlankRaw(RawLines[i]) /\ ~IsBlankRaw(RawLines[i - 1]))
                => CountIndent(lines[i]) = LeadingDepth(RawLines[i - 1], tabSize)

\* the fragments inside the <pre> block of a row
CellOf(row) ==
    SubSeq(row, PreIndex(row) + 1, Least({k \in 1..Len(row) : row[k] = PreClose}) - 1)

\* C10: every row has a non-empty code cell.  The <pre> block of every row
\* holds line content, inferred indentation or the placeholder <br>.
C10_NonEmptyCell ==
    pc = "done" =>
        \A i \in 1..Len(lines) :
            \E k \in 1..Len(CellOf(lines[i])) :
                CellOf(lines[i])[k] \notin SpanTags \cup {INDENT}

\* the places of a row where a line-number cell opens
NumberCellsOf(row) == {k \in 1..Len(row) : row[k] = "<td class=\"highlight-line\">"}

\* C11: line numbering.  With lineNumbers enabled the i-th row holds exactly
\* one line-number cell and it shows i, so the numbers are 1..n without gap
\* or repeat; with lineNumbers disabled no row holds a line-number cell.
C11_LineNumbering ==
    pc = "done" =>
        /\ \A i \in 1..Len(lines) :
              IF lineNumbers
              THEN /\ Cardinality(NumberCellsOf(lines[i])) = 1
                   /\ CountIn(lines[i], {"<div class=\"highlight-div\">"}) = 1
                   /\ \A k \in NumberCellsOf(lines[i]) :
                         SubSeq(lines[i], k + 1, k + 4)
                             = <<"<div class=\"highlight-div\">", ToString(i), "</div>", "</td>">>
              ELSE /\ NumberCellsOf(lines[i]) = {}
                   /\ CountIn(lines[i], {"<div class=\"highlight-div\">"}) = 0
        /\ Cardinality(NumberCellsOf(result)) = IF lineNumbers THEN Len(lines) ELSE 0

\* C11 witness: a finished call with line numbers, three rows or more, and
\* a row that the guide pass rewrote
C11_Witness ==
    /\ pc = "done"
    /\ lineNumbers
    /\ Len(lines) >= 3
    /\ \E i \in 1..Len(lines) : CountIndent(lines[i]) > 0


\* C12: single-line output.  For every input and option setting the
\* returned string holds no "\n" and no "\r" character.
C12_SingleLine ==
    pc = "done" =>
        /\ result # <<>>
        /\ \A k \in 1..Len(result) : result[k] \notin {"\n", "\r"}

\* C12 witness: a returned markup with the color variables and the style
\* sheet, for an input that holds a line feed and a carriage return
C12_Witness ==
    /\ pc = "done"
    /\ colorVariables
    /\ style
    /\ \E k \in 1..Len(originalString) : originalString[k] = "\n"
    /\ \E k \in 1..Len(originalString) : originalString[k] = "\r"
    /\ RowCount(result) >= 2

\* TRUE when the fragments sub occur in s one after the other
Contains(s, sub) == \E k \in 0..(Len(s) - Len(sub)) : SubSeq(s, k + 1, k + Len(sub)) = sub

\* the example of the specification: a line comment followed by code
CommentThenCode ==
    <<"/", "/", " ", "h", "i", "\n", "l", "e", "t", " ", "x", " ", "=", " ", "1", ";">>

\* C13: line comment followed by code.  For an input whose first line is a
\* "//" comment and whose second line is code, row 1's text lies entirely
\* inside one COMMENT span that opens and closes within row 1, and the
\* tokens of row 2 are colored independently (let as STORAGE, 1 as NUMBER).
C13_LineCommentThenCode ==
    (pc = "done" /\ ~failed /\ originalString = CommentThenCode) =>
        /\ Len(lines) = 2
        /\ LET cell == CellOf(lines[1])
           IN  /\ cell[1] = OpenTag("COMMENT")
               /\ cell[Len(cell)] = CloseTag
               /\ CountIn(cell, OpenTags) = 1
               /\ CountIn(cell, {CloseTag}) = 1
        /\ Contains(CellOf(lines[2]), <<OpenTag("STORAGE"), "l", "e", "t", CloseTag>>)
        /\ Contains(CellOf(lines[2]), <<OpenTag("NUMBER"), "1", CloseTag>>)

\* C14: memoized parse regex.  Over any sequence of constructions the parse
\* regular expression is built at most once; every call of __getParseRegex
\* returns the same cached object, which is never written again, and its
\* pattern is the one an initialisation produces.
C14_MemoizedRegex ==
    /\ allocated <= 1
    /\ allocated = 0 <=> parseRegex = NoRegExp
    /\ allocated = 0 <=> served = <<>>
    /\ allocated = 1 => parseRegex = [id |-> 1, source |-> ParseSource,
                                      flags |-> "mi", lastIndex |-> 0]
    /\ \A k \in 1..Len(served) : served[k] = parseRegex

\* C14 witness: two constructions from strings, the first successful and
\* the second one rejected, both served by the regex built for the first
C14_Witness ==
    /\ Len(served) = 2
    /\ Len(numbers) = 2
    /\ numbers[1].ok
    /\ ~numbers[2].ok
    /\ allocated = 1

\* the end of the last accepted span after the first k sorted spans, by the
\* rule of C15: a span is discarded exactly when it starts before that end
RECURSIVE WalkEnd(_)
WalkEnd(k) ==
    IF k = 0 THEN -1
    ELSE IF positions[k][1] < WalkEnd(k - 1) THEN WalkEnd(k - 1)
    ELSE positions[k][3]

\* the spans accepted among the first k sorted spans, by the rule of C15
RECURSIVE WalkAccepted(_)
WalkAccepted(k) ==
    IF k = 0 THEN <<>>
    ELSE IF positions[k][1] < WalkEnd(k - 1) THEN WalkAccepted(k - 1)
    ELSE Append(WalkAccepted(k - 1), positions[k])

\* the state part of C15
AcceptanceRule ==
    /\ pc = "compose" =>
          /\ next = 1 => End = -1 /\ \A k \in 1..Len(positions) : End < positions[k][1]
          /\ next > 1 => accepted[1] = positions[1]
          /\ End = WalkEnd(next - 1)
          /\ accepted = WalkAccepted(next - 1)
    /\ Composited => accepted = WalkAccepted(Len(positions))

\* the step part of C15
AcceptanceStep ==
    /\ End' >= End
    /\ Len(accepted') >= Len(accepted)
    /\ SubSeq(accepted', 1, Len(accepted)) = accepted

\* C15: acceptance rule of the compositor walk.  The end of the last
\* accepted span starts below every offset, so the first sorted span is
\* accepted; a span is discarded exactly when its start is strictly less
\* than that end, a touching span is accepted; the end never decreases and
\* an accepted span is never evicted.
C15_AcceptanceRule == []AcceptanceRule /\ [][AcceptanceStep]_vars

\* C15 witness: the walk accepted a span that starts where the span
\* accepted before it ends, and discarded another one
C15_Witness ==
    /\ Composited
    /\ Len(positions) > Len(accepted)
    /\ \E i \in 1..(Len(accepted) - 1) : accepted[i + 1][1] = accepted[i][3]

\* the candidate span p was accepted
InAccepted(p) == \E i \in 1..Len(accepted) : accepted[i] = p

\* the start of the candidate span p lies in another accepted span that
\* starts at or before it
Blocked(p) ==
    \E i \in 1..Len(accepted) :
        /\ accepted[i] # p
        /\ accepted[i][1] <= p[1]
        /\ p[1] < accepted[i][3]

\* the span a of a later rule starts strictly before the span b of an
\* earlier rule and overlaps it
StartsEarlier(a, b) == a[4] > b[4] /\ a[1] < b[1] /\ b[1] < a[3]

\* no tag is in the text for a discarded span
NoTagsForDiscarded ==
    pc = "compose" =>
        /\ CountIn(str, OpenTags) = Len(accepted)
        /\ CountIn(str, {CloseTag}) = Len(accepted)

\* C16 as stated: start order beats declaration order.  If a span from a
\* later rule starts strictly earlier than an overlapping span from an
\* earlier rule, the later rule's span is accepted and the earlier rule's
\* span is discarded; no coloring is produced for the discarded span.
C16_StartOrderWins ==
    /\ Composited =>
          \A a, b \in 1..Len(positions) :
              StartsEarlier(positions[a], positions[b])
                  => InAccepted(positions[a]) /\ ~InAccepted(positions[b])
    /\ NoTagsForDiscarded

\* C16 as amended: the same, for a later rule's span whose own start is not
\* covered by an accepted span that starts at or before it.
C16_StartOrderWinsUnlessBlocked ==
    /\ Composited =>
          \A a, b \in 1..Len(positions) :
              (StartsEarlier(positions[a], positions[b]) /\ ~Blocked(positions[a]))
                  => InAccepted(positions[a]) /\ ~InAccepted(positions[b])
    /\ NoTagsForDiscarded

\* C16 witness: the walk is over and an accepted span of a later rule
\* starts before an overlapping, discarded span of an earlier rule
C16_Witness ==
    /\ Composited
    /\ \E a, b \in 1..Len(positions) :
          /\ StartsEarlier(positions[a], positions[b])
          /\ ~Blocked(positions[a])
          /\ InAccepted(positions[a])
          /\ ~InAccepted(positions[b])

\* a fragment that is not a span tag
IsText(f) == f \notin SpanTags

\* the total length of the span tags of s
RECURSIVE TagLength(_)
TagLength(s) ==
    IF s = <<>> THEN 0
    ELSE (IF IsText(Head(s)) THEN 0 ELSE Len(Head(s))) + TagLength(Tail(s))

\* the length of the text of s in front of fragment k, span tags left out
RECURSIVE TextBefore(_, _)
TextBefore(s, k) ==
    IF k <= 1 THEN 0
    ELSE (IF IsText(s[k - 1]) THEN Len(s[k - 1]) ELSE 0) + TextBefore(s, k - 1)

\* the opening tag of the span p sits right before the character at its
\* start offset, its closing tag right after the character at end - 1
TagsInPlace(s, p) ==
    /\ \E k \in 1..(Len(s) - 1) :
          /\ s[k] = OpenTag(p[2])
          /\ TextBefore(s, k) = p[1]
          /\ IsText(s[k + 1])
    /\ \E m \in 2..Len(s) :
          /\ s[m] = CloseTag
          /\ TextBefore(s, m) = p[3]
          /\ IsText(s[m - 1])

\* C17: offset bookkeeping preserves the text.  After every iteration of
\* the compositor loop the running offset is the total length of the tags
\* inserted so far, each accepted span's opening tag sits immediately
\* before the character that was at its start offset and its closing tag
\* immediately after the character that was at end - 1, and deleting the
\* inserted tags from the annotated text gives back the escaped text.
C17_OffsetBookkeeping ==
    pc = "compose" =>
        /\ offset = TagLength(str)
        /\ \A i \in 1..Len(accepted) : TagsInPlace(str, accepted[i])
        /\ SelectSeq(str, IsText) = EscapedText

\* C17 witness: the loop is over and wrapped two spans, the second one
\* behind the first with a running offset that is not zero
C17_Witness ==
    /\ pc = "compose"
    /\ next > Len(positions)
    /\ Len(accepted) >= 2
    /\ offset > 0
    /\ accepted[2][1] > 0

\* a fragment that is a span tag
IsTag(f) == f \in SpanTags

\* the span tags of s, in order
TagsOf(s) == SelectSeq(s, IsTag)

\* C18: well-formed wrapping.  The annotated text of the compositor holds
\* exactly one opening and one closing tag per accepted span, the opening
\* tag names the theme variable of the span's category, the tags are
\* paired in order, and no opening tag stands between another span's
\* opening and closing tag.
C18_WellFormedWrapping ==
    pc = "compose" =>
        /\ Len(TagsOf(str)) = 2 * Len(accepted)
        /\ \A i \in 1..Len(accepted) :
              /\ accepted[i][2] = Colors[accepted[i][4]].color
              /\ TagsOf(str)[2 * i - 1] = OpenTag(accepted[i][2])
              /\ TagsOf(str)[2 * i] = CloseTag

\* C18 witness: the loop is over, it wrapped spans of two categories and
\* discarded a candidate
C18_Witness ==
    /\ pc = "compose"
    /\ next > Len(positions)
    /\ Len(positions) > Len(accepted)
    /\ \E i, j \in 1..Len(accepted) : accepted[i][2] # accepted[j][2]

\* the end of the last match of rule r in s that starts before offset p,
\* matches being taken from left to right without overlap
RECURSIVE LastMatchEnd(_, _, _)
LastMatchEnd(r, s, p) ==
    IF p = 0 THEN 0
    ELSE LET e == LastMatchEnd(r, s, p - 1)
             m == MatchAt(r, s, p - 1)
         IN  IF p - 1 >= e /\ m # NoMatch THEN p - 1 + m.len ELSE e

\* the offsets of s where a match of rule r starts
MatchStarts(r, s) ==
    {p \in 0..Len(s) : p >= LastMatchEnd(r, s, p) /\ MatchAt(r, s, p) # NoMatch}

\* the spans of rule r in the list ps
SpansOfRule(ps, r) == {k \in 1..Len(ps) : ps[k][4] = r}

\* nothing has been inserted into the text
NoMarkupYet == str = EscapedText /\ accepted = <<>> /\ CountIn(str, SpanTags) = 0

\* the state between the scan and the sort: the text is the escaped text,
\* the spans stand in declaration order of their rules, one per match
ScannedInOrder ==
    /\ pc \in {"scan", "sort"} => NoMarkupYet
    /\ pc = "sort" =>
          /\ \A j, k \in 1..Len(positions) :
                j < k => positions[j][4] <= positions[k][4]
          /\ \A r \in 1..Len(Colors) :
                Cardinality(SpansOfRule(positions, r))
                    = Cardinality(MatchStarts(r, EscapedText))

\* a step of the scan leaves the text alone
ScanStep == pc = "scan" => str' = str /\ accepted' = accepted

\* C19: scan before compose.  Every rule is scanned, in declaration order,
\* against the same escaped text, which scanning leaves unchanged; exactly
\* one candidate span is emitted per match, none for a rule with no match,
\* which is not an error; no markup is inserted until all rules have been
\* scanned.
C19_ScanBeforeCompose == []ScannedInOrder /\ [][ScanStep]_vars

\* C19 witness: the scan of a text with an unterminated string literal is
\* over without an error; some rule matched twice, the string rule not at all
C19_Witness ==
    /\ pc = "sort"
    /\ ~failed
    /\ \E k \in 1..Len(EscapedText) : EscapedText[k] = "\""
    /\ SpansOfRule(positions, 5) = {}
    /\ \E r \in 1..Len(Colors) : Cardinality(SpansOfRule(positions, r)) >= 2

\* the span that covers the characters the capture group of the match of
\* rule r at offset p matched.  In the rules the inputs can trigger the
\* group reaches to the end of the match.
GroupSpan(r, s, p) ==
    LET m == MatchAt(r, s, p)
    IN  <<p + m.len - Len(m.group), Colors[r].color, p + m.len, r>>

\* the span lies inside the match of rule r at offset p and inside the text
InsideMatch(span, r, s, p) ==
    /\ p <= span[1]
    /\ span[1] <= span[3]
    /\ span[3] <= p + MatchAt(r, s, p).len
    /\ span[3] <= Len(s)

\* C20: span position equals group position.  For every match the emitted
\* span covers exactly the characters that the chosen capture group
\* matched, also when the text of the group occurs earlier inside the same
\* match; every span lies inside its match and inside the text.
C20_SpanAtGroup ==
    pc = "sort" =>
        \A k \in 1..Len(positions) :
            \E p \in MatchStarts(positions[k][4], EscapedText) :
                /\ positions[k] = GroupSpan(positions[k][4], EscapedText, p)
                /\ InsideMatch(positions[k], positions[k][4], EscapedText, p)

\* C21 as stated: default coloring group.  A rule that names no group index
\* emits, for every match, the span of the full outer match (group 0).
C21_DefaultGroupZero ==
    pc = "sort" =>
        \A k \in 1..Len(positions) :
            \E p \in MatchStarts(positions[k][4], EscapedText) :
                /\ positions[k][1] = p
                /\ positions[k][3] = p + MatchAt(positions[k][4], EscapedText, p).len

\* C21 as amended: a rule that names no group index emits, for every match,
\* a span taken from its first capture group: the span has the length of
\* that group and starts where the text of the group first occurs in the
\* match.
C21_DefaultFirstGroup ==
    pc = "sort" =>
        \A k \in 1..Len(positions) :
            \E p \in MatchStarts(positions[k][4], EscapedText) :
                LET m == MatchAt(positions[k][4], EscapedText, p)
                IN  /\ positions[k][1] = p + IndexOf(Sub(EscapedText, p, p + m.len), m.group)
                    /\ positions[k][3] = positions[k][1] + Len(m.group)
                    /\ Sub(EscapedText, positions[k][1], positions[k][3]) = m.group

\* C21 witness: the scan emitted a span for a match that is longer than its
\* first capture group
C21_Witness ==
    /\ pc = "sort"
    /\ \E k \in 1..Len(positions) :
          \E p \in MatchStarts(positions[k][4], EscapedText) :
              LET m == MatchAt(positions[k][4], EscapedText, p)
              IN  /\ Len(m.group) < m.len
                  /\ positions[k][1] = p + m.len - Len(m.group)
                  /\ positions[k][3] = p + m.len

\* the rows are rendered
Rendered == pc \in {"return", "done"}

\* the lines of the text the rows were rendered from
TextLines == SplitLines(str)

\* the number of complete groups of tabSize "&nbsp;" at the start of a line
LeadingGroups(line) == RunLength(line, 1) \div tabSize

\* the number of "&nbsp;" in a row
UnitsIn(row) == CountIn(row, {NBSP})

\* C22: blank-line inference does not depend on guides.  With indentLines
\* disabled, an empty line that follows a line with k complete leading
\* tab-size groups is rendered with k * tabSize placeholder units.
C22_EmptyLineInferredWithoutGuides ==
    (Rendered /\ ~failed /\ ~indentLines) =>
        \A i \in 2..Len(TextLines) :
            TextLines[i] = <<>>
                => UnitsIn(lines[i]) = LeadingGroups(TextLines[i - 1]) * tabSize

\* the line before line i of ls, empty for the first line
LineBefore(ls, i) == IF i = 1 THEN <<>> ELSE ls[i - 1]

\* a step of the line pass gives every line that holds only "\r" as many
\* tab-size groups as the line before it has at its start
InferenceCountsLeading ==
    pc = "infer" =>
        \A i \in 1..Len(SplitLines(str)) :
            SplitLines(str)[i] = <<"\r">>
                => SplitLines(str')[i]
                     = Repeat(TAB(tabSize),
                              LeadingGroups(LineBefore(SplitLines(str'), i)))

\* C23: inference counts leading groups only.  When the line pass infers
\* the indentation of a line that holds only a carriage return, the number
\* of indent groups it reproduces is the number of complete tab-size groups
\* at the start of the previous line; groups behind the first character of
\* that line that is no whitespace are not counted.
C23_InferenceCountsLeadingGroups == [][InferenceCountsLeading]_vars

\* the characters of a line, span tags left out
TextOf(line) == SelectSeq(line, IsText)

\* the line is not blank and its first character is no whitespace
StartsWithInk(line) ==
    /\ TextOf(line) # <<>>
    /\ TextOf(line)[1] \notin {NBSP, " ", "\t", "\r"}

\* C24: guides only in leading whitespace.  With guides enabled, a line
\* that is not blank and whose first character is no whitespace gets no
\* guide marker, whatever whitespace runs occur later in the line.
C24_GuidesOnlyInLeadingRun ==
    (Rendered /\ indentLines) =>
        \A i \in 1..Len(TextLines) :
            StartsWithInk(TextLines[i]) => CountIndent(lines[i]) = 0

\* the content of the <pre> block of a row
PreContent(row) ==
    SubSeq(row, PreIndex(row) + 1,
           Least({k \in 1..Len(row) : row[k] = PreClose}) - 1)

\* a line with L leading placeholder units after guide emission: one marker
\* in front of each full tab-size group, then the loose units, then the
\* rest of the line
WithGuides(line) ==
    LET c == StripCR(line)
        L == RunLength(c, 1)
    IN  Repeat(<<INDENT>> \o TAB(tabSize), L \div tabSize)
        \o Repeat(<<NBSP>>, L % tabSize)
        \o SubSeq(c, L + 1, Len(c))

\* C25: guide arithmetic.  For a line that is not blank and whose leading
\* run has L placeholder units, guide emission produces floor(L / tabSize)
\* guide markers, each in front of one full tab-size group, followed by
\* L mod tabSize loose units; a blank line with zero inferred indent keeps
\* its <br> placeholder and gets no guide marker.
C25_GuideArithmetic ==
    (Rendered /\ indentLines) =>
        \A i \in 1..Len(TextLines) :
            /\ StripCR(TextLines[i]) # <<>>
                 => PreContent(lines[i]) = WithGuides(TextLines[i])
            /\ (StripCR(TextLines[i]) = <<>>
                  /\ CountIndent(LineBefore(lines, i)) = 0)
                 => PreContent(lines[i]) = <<BR>>

\* the fragments that open a <pre> block
PreOpens == {PreOpen(TRUE), PreOpen(FALSE)}

\* the texts of the code cells of a markup, in order: what stands between
\* each <pre ...> and the </pre> behind it
RECURSIVE CodeCells(_)
CodeCells(s) ==
    LET opens == {k \in 1..Len(s) : s[k] \in PreOpens}
    IN  IF opens = {} THEN <<>>
        ELSE LET a == Least(opens)
                 b == Least({k \in (a + 1)..Len(s) : s[k] = PreClose})
             IN  <<SubSeq(s, a + 1, b - 1)>> \o CodeCells(SubSeq(s, b + 1, Len(s)))

\* C26: normalization leaves content alone.  The trailing step that
\* collapses runs of two or more whitespace characters changes only
\* whitespace of the generated markup; the text inside every code cell is
\* the same before and after that step.
C26_NormalizationKeepsCells ==
    pc = "done" =>
        CodeCells(result)
            = CodeCells(Markup(Concat(lines), wrapLines, style, colorVariables,
                               allowSelection))

\* no character "<" or ">" of the input is in s
NoRawAngle(s) == \A k \in 1..Len(s) : s[k] \notin {"<", ">"}

\* the fragments of s that begin a tag
TagsIn(s) == {s[k] : k \in {j \in 1..Len(s) : Len(s[j]) > 1 /\ SubSeq(s[j], 1, 1) = "<"}}

\* the tags the highlighter generates for the text and the rows
GeneratedTags ==
    SpanTags \cup PreOpens
    \cup {INDENT, BR, PreClose, "</td>", "</tr>", "</div>",
          "<tr class=\"highlight-tr\">", "<td class=\"highlight-line\">",
          "<div class=\"highlight-div\">", "<td class=\"highlight-code\">"}

\* C27: no markup from the input.  On the success and on the failure path,
\* the text used to build the rows holds no "<" or ">" that comes from the
\* input, and every tag of the text and of the rows was generated by the
\* highlighter.
C27_NoMarkupFromInput ==
    pc # "escape" =>
        /\ NoRawAngle(str)
        /\ TagsIn(str) \subseteq SpanTags
        /\ \A i \in 1..Len(lines) :
              NoRawAngle(lines[i]) /\ TagsIn(lines[i]) \subseteq GeneratedTags

\* C27 witness: the rows of an input with "<" are rendered on the failure
\* path
C27_Witness ==
    /\ Rendered
    /\ failed
    /\ \E k \in 1..Len(originalString) : originalString[k] = "<"
    /\ lines # <<>>

\* C28: gaussian draw stays in range.  For min <= max and skew 1, every
\* value returned by randomGaussian(min, max) and by
\* RandomGenerator.gaussian(min, max) lies in [min, max], also when the
\* first draw was out of range and was resampled by the recursive call.
C28_GaussianInRange ==
    gpc = "returned" => (min * Unit <= returned /\ returned <= max * Unit)

\* the listener was registered when the last dispatch began
WasRegistered(listener) == \E k \in 1..Len(registered) : registered[k] = listener

\* C29: event dispatch reaches every listener once.  During a synchronous
\* dispatchEvent(type), each listener that was registered for type when the
\* dispatch began is invoked exactly once, in registration order, unless an
\* earlier listener called stopPropagation, also when a listener calls
\* removeEventListener or addEventListener during the dispatch.
C29_DispatchReachesEveryListener ==
    (eventType = NoEvent /\ ~isStopped)
        => SelectSeq(invoked, WasRegistered) = registered

\* C30: hasListeners tracks registration.  After any sequence of
\* addEventListener and removeEventListener calls, hasListeners(type) is
\* true if and only if at least one listener is registered for type.
C30_HasListenersTracksRegistration ==
    \A type \in Types :
        HasListeners(listenersMap, type)
            <=> (listenersMap[type] # NoList /\ Len(listenersMap[type]) > 0)

=============================================================================
